---- MODULE Spec2Model ----
(***************************************************************************)
(* Model of the KTF task scheduler (common/sched.c): task lifecycle, the   *)
(* per-processor run queue and its lock, schedule_task, the run loop       *)
(* run_tasks with run_task / process_task_repeat / destroy_task, the       *)
(* busy-waiting wait_for_task_group and the lookup get_task_by_name.       *)
(*                                                                         *)
(* Threads of control: one run loop per processor (run_tasks is entered    *)
(* once per processor) and a fixed set of callers, which stand for code    *)
(* running on some processor outside that processor's queue scan and call  *)
(* new_task, set_task_repeat, set_task_group, schedule_task and            *)
(* wait_for_task_group.  Every access to shared memory that another thread *)
(* can observe is a step of its own; purely local steps are merged into    *)
(* the shared access that follows them.                                    *)
(***************************************************************************)
EXTENDS Integers, Sequences, FiniteSets, TLC

(* ------------------------------ bounds -------------------------------- *)
MaxTasks == 2
MaxRepeat == 3
MaxExec == 5
MaxSmpExec == 2

(* -------------------------- program constants -------------------------- *)
TASK_STATE_NEW == 0
TASK_STATE_READY == 1
TASK_STATE_SCHEDULED == 2
TASK_STATE_RUNNING == 3
TASK_STATE_DONE == 4
TaskStates == TASK_STATE_NEW .. TASK_STATE_DONE

TASK_REPEAT_ONCE == 0
TASK_REPEAT_LOOP == 2147483647
Repeats == {TASK_REPEAT_ONCE, TASK_REPEAT_LOOP, 1, MaxRepeat}
(* The policies of the tasks a waiter is run against: all terminate. *)
WaitRepeats == {TASK_REPEAT_ONCE, 1}
(* The policies used where both processors run. *)
SmpRepeats == {TASK_REPEAT_ONCE, TASK_REPEAT_LOOP}
(* The policies used where run_task is taken statement by statement. *)
RunRepeats == {TASK_REPEAT_ONCE, TASK_REPEAT_LOOP, 1}

TASK_GROUP_ALL == 0
TASK_GROUP_ACPI == 1
Groups == {TASK_GROUP_ALL, TASK_GROUP_ACPI}

(* Processors; the bootstrap processor is the one get_bsp_cpu_id() names.  *)
bsp_cpu_id == 0
CPUS == {0, 1}
is_cpu_bsp(cpu) == cpu = bsp_cpu_id

Callers == {"A", "B"}
(* The callers that build and submit tasks, and those that wait for them. *)
Submitters == {"A"}
Waiters == {"B"}
Tasks == 1 .. MaxTasks
(* The list head of a queue, as the end marker of an iteration. *)
HEAD == 0
NoCpu == -1

(* Task types; memset leaves a new task with type 0. *)
TASK_TYPE_KERNEL == 0
TASK_TYPE_USER == 1
TaskTypes == {TASK_TYPE_KERNEL, TASK_TYPE_USER}

(* Task names; a task that was never prepared has none. *)
NoName == "none"
NoFunc == "null"
Funcs == {"f1", "_osd_exec_cb_wrapper"}
NoArg == "null"
StaticArg == "static"
Names == {"n1", "n2"}

(* Stack pages get_free_page_top can hand out; NoPage is the null pointer. *)
NoPage == 0
Pages == 1 .. MaxTasks

(* Return values. *)
ESUCCESS == 0
EEXIST == 17
EINVAL == 22
NoTask == 0

NoOwner == <<"none", 0>>
RunLoopId(cpu) == <<"run_tasks", cpu>>
CallerId(c) == <<"caller", c>>

VARIABLES
    mem,          \* task object: "unalloc", "live" (kzalloc'ed), "freed" (kfree'd)
    state,        \* task->state
    repeat,       \* task->repeat
    gid,          \* task->gid
    tcpu,         \* task->cpu
    exec_count,   \* task->exec_count
    handle,       \* the caller that holds the pointer new_task returned
    queue,        \* cpu->task_queue, head first
    lock,         \* cpu->lock: its holder
    blocked,      \* cpu "blocked" flag
    finished,     \* cpu "finished" flag
    rl_pc, rl_task, rl_safe,            \* run_tasks: position, task, safe
    c_pc, c_task, c_safe, c_cpu, c_group, c_busy,  \* a caller's call frame
    halted,       \* panic() / BUG() stopped the system
    hist,         \* history record, read by the properties only
    next_tid,     \* the static counter next_tid
    id,           \* task->id
    name,         \* task->name
    ttype,        \* task->type
    stack,        \* task->stack: a page, or NoPage
    page,         \* the page allocator: "free" or "used", per page
    c_ret,        \* the value a caller's last call returned
    c_tid,        \* create_task: the value read from next_tid
    c_name,       \* get_task_by_name: the name looked for
    result,       \* task->result: the number of the execution it is the result of
    func,         \* task->func
    arg           \* task->arg: the object it points to

taskVars == <<mem, state, repeat, gid, tcpu, exec_count, handle>>
cpuVars == <<queue, lock, blocked, finished>>
rlVars == <<rl_pc, rl_task, rl_safe>>
cVars == <<c_pc, c_task, c_safe, c_cpu, c_group, c_busy>>
idVars == <<next_tid, id>>
resVars == <<name, ttype, stack, page>>
retVars == <<c_ret, c_tid, c_name>>
argVars == <<func, arg>>
extVars == <<idVars, resVars, retVars, result, argVars>>
vars == <<taskVars, cpuVars, rlVars, cVars, halted, hist, extVars>>

(* ------------------------------ list.h --------------------------------- *)
Linked(cpu, t) == \E i \in 1 .. Len(queue[cpu]) : queue[cpu][i] = t

IndexOf(q, t) == CHOOSE i \in 1 .. Len(q) : q[i] = t

(* list_first_entry: the first task of the queue, or the head itself. *)
First(cpu) == IF queue[cpu] = <<>> THEN HEAD ELSE Head(queue[cpu])

(* task->list.next of a task linked into cpu's queue. *)
NextOf(cpu, t) ==
    LET q == queue[cpu]
        i == IndexOf(q, t)
    IN IF i = Len(q) THEN HEAD ELSE q[i + 1]

(* list_unlink *)
Unlink(q, t) == SelectSeq(q, LAMBDA x : x # t)

list_is_empty(cpu) == queue[cpu] = <<>>

(* The values a read of task->list.next can give.  For a freed task the   *)
(* read is a use after free: the stale pointer may be the head, the task  *)
(* itself, or any task that is or was linked into this queue.  (A read of *)
(* the state or the group of a freed task gives what the memory holds:    *)
(* what the task left there, or zeroes once kzalloc has handed the memory *)
(* out again, see kzalloc_reuse.)                                         *)
NextPtrs(cpu, t) ==
    IF mem[t] = "live" /\ Linked(cpu, t)
    THEN {NextOf(cpu, t)}
    ELSE {HEAD} \cup {u \in Tasks : Linked(cpu, u) \/ (mem[u] = "freed" /\ tcpu[u] = cpu)}

(* ------------------------------ history -------------------------------- *)
HistInit ==
    [ sub    |-> [cpu \in CPUS |-> <<>>],     \* tasks in the order they were linked
      run    |-> [cpu \in CPUS |-> <<>>],     \* tasks in the order of their first run
      policy |-> [t \in Tasks |-> TASK_REPEAT_ONCE], \* repeat when submitted
      late   |-> {},                          \* tasks linked after run_tasks returned
      uaf    |-> FALSE,                       \* a freed task was read
      nondone |-> [c \in Callers |-> FALSE],  \* this pass saw a matching task not DONE
      sawdone |-> [c \in Callers |-> FALSE],  \* this pass saw a matching task DONE
      rejected |-> {},                        \* tasks a schedule_task call rejected
      puts   |-> [t \in Tasks |-> 0],         \* put_page_top calls for the task's stack
      allocfail |-> {},                       \* tasks whose stack allocation failed
      nocpu  |-> {},                          \* tasks of schedule_task calls without a cpu
      early  |-> {},                          \* tasks destroyed before any submission
      calls  |-> [t \in Tasks |-> 0],         \* calls of the task's function
      wild   |-> {},                          \* tasks called with an indeterminate argument
      snap   |-> [c \in Callers |-> <<>>] ]   \* the queue when get_task_by_name began

Init ==
    /\ mem = [t \in Tasks |-> "unalloc"]
    /\ state = [t \in Tasks |-> TASK_STATE_NEW]
    /\ repeat = [t \in Tasks |-> TASK_REPEAT_ONCE]
    /\ gid = [t \in Tasks |-> TASK_GROUP_ALL]
    /\ tcpu = [t \in Tasks |-> NoCpu]
    /\ exec_count = [t \in Tasks |-> 0]
    /\ handle = [t \in Tasks |-> "A"]
    /\ queue = [cpu \in CPUS |-> <<>>]
    /\ lock = [cpu \in CPUS |-> NoOwner]
    /\ blocked = [cpu \in CPUS |-> ~is_cpu_bsp(cpu)]
    /\ finished = [cpu \in CPUS |-> FALSE]
    /\ rl_pc = [cpu \in CPUS |-> "start"]
    /\ rl_task = [cpu \in CPUS |-> HEAD]
    /\ rl_safe = [cpu \in CPUS |-> HEAD]
    /\ c_pc = [c \in Callers |-> "idle"]
    /\ c_task = [c \in Callers |-> HEAD]
    /\ c_safe = [c \in Callers |-> HEAD]
    /\ c_cpu = [c \in Callers |-> bsp_cpu_id]
    /\ c_group = [c \in Callers |-> TASK_GROUP_ALL]
    /\ c_busy = [c \in Callers |-> FALSE]
    /\ halted = FALSE
    /\ hist = HistInit
    /\ next_tid = 0
    /\ id = [t \in Tasks |-> 0]
    /\ name = [t \in Tasks |-> NoName]
    /\ ttype = [t \in Tasks |-> TASK_TYPE_KERNEL]
    /\ stack = [t \in Tasks |-> NoPage]
    /\ page = [p \in Pages |-> "free"]
    /\ c_ret = [c \in Callers |-> 0]
    /\ c_tid = [c \in Callers |-> 0]
    /\ c_name = [c \in Callers |-> NoName]
    /\ result = [t \in Tasks |-> 0]
    /\ func = [t \in Tasks |-> NoFunc]
    /\ arg = [t \in Tasks |-> NoArg]

(* ----------------------------- task setup ------------------------------ *)
(* create_task: kzalloc, memset, id = next_tid++, default group, state     *)
(* NEW, exec_count 0, set_task_once.  The caller goes on to prepare_task   *)
(* within new_task.  One step, for a caller that is the only one creating  *)
(* tasks (see create_task_load for concurrent callers).                    *)
create_task(c, t) ==
    /\ ~halted
    /\ c_pc[c] = "idle"
    /\ mem[t] = "unalloc"
    /\ \A u \in Tasks : u < t => mem[u] # "unalloc"
    /\ mem' = [mem EXCEPT ![t] = "live"]
    /\ gid' = [gid EXCEPT ![t] = TASK_GROUP_ALL]
    /\ state' = [state EXCEPT ![t] = TASK_STATE_NEW]
    /\ exec_count' = [exec_count EXCEPT ![t] = 0]
    /\ repeat' = [repeat EXCEPT ![t] = TASK_REPEAT_ONCE]
    /\ handle' = [handle EXCEPT ![t] = c]
    /\ c_pc' = [c_pc EXCEPT ![c] = "prepare"]
    /\ c_task' = [c_task EXCEPT ![c] = t]
    /\ id' = [id EXCEPT ![t] = next_tid]
    /\ next_tid' = next_tid + 1
    /\ result' = [result EXCEPT ![t] = 0]
    /\ func' = [func EXCEPT ![t] = NoFunc]
    /\ arg' = [arg EXCEPT ![t] = NoArg]
    /\ UNCHANGED <<tcpu, cpuVars, rlVars, c_safe, c_cpu, c_group, c_busy, halted, hist,
                   resVars, retVars>>

(* create_task on a processor while another processor may be in           *)
(* create_task too: kzalloc and memset, then the load of next_tid for      *)
(* task->id = next_tid++.  next_tid is a plain static variable and the     *)
(* increment is not atomic, so its load and its store are separate steps.  *)
create_task_load(c, t) ==
    /\ ~halted
    /\ c_pc[c] = "idle"
    /\ mem[t] = "unalloc"
    /\ \A u \in Tasks : u < t => mem[u] # "unalloc"
    /\ mem' = [mem EXCEPT ![t] = "live"]
    /\ handle' = [handle EXCEPT ![t] = c]
    /\ c_pc' = [c_pc EXCEPT ![c] = "c_store"]
    /\ c_task' = [c_task EXCEPT ![c] = t]
    /\ c_tid' = [c_tid EXCEPT ![c] = next_tid]
    /\ UNCHANGED <<state, repeat, gid, tcpu, exec_count, cpuVars, rlVars,
                   c_safe, c_cpu, c_group, c_busy, halted, hist,
                   idVars, resVars, c_ret, c_name,
                   result, argVars>>

(* create_task, second half: the stores of task->id = next_tid++, then     *)
(* default group, state NEW, exec_count 0, set_task_once.                  *)
create_task_store(c) ==
    LET t == c_task[c]
    IN /\ ~halted
       /\ c_pc[c] = "c_store"
       /\ id' = [id EXCEPT ![t] = c_tid[c]]
       /\ next_tid' = c_tid[c] + 1
       /\ gid' = [gid EXCEPT ![t] = TASK_GROUP_ALL]
       /\ state' = [state EXCEPT ![t] = TASK_STATE_NEW]
       /\ exec_count' = [exec_count EXCEPT ![t] = 0]
       /\ repeat' = [repeat EXCEPT ![t] = TASK_REPEAT_ONCE]
       /\ c_pc' = [c_pc EXCEPT ![c] = "prepare"]
       /\ c_tid' = [c_tid EXCEPT ![c] = 0]
       /\ result' = [result EXCEPT ![t] = 0]
       /\ func' = [func EXCEPT ![t] = NoFunc]
       /\ arg' = [arg EXCEPT ![t] = NoArg]
       /\ UNCHANGED <<mem, tcpu, handle, cpuVars, rlVars, c_task, c_safe, c_cpu,
                      c_group, c_busy, halted, hist, resVars, c_ret, c_name>>

(* Variant: prepare_task stores the fields but leaves the state NEW. *)
prepare_task_arg_KeepNew(c, nm, fn, a, ty, pg) ==
    LET t == c_task[c]
    IN /\ ~halted
       /\ c_pc[c] = "prepare"
       /\ IF ty = TASK_TYPE_USER /\ pg # NoPage THEN page[pg] = "free" ELSE pg = NoPage
       /\ name' = [name EXCEPT ![t] = nm]
       /\ func' = [func EXCEPT ![t] = fn]
       /\ arg' = [arg EXCEPT ![t] = a]
       /\ ttype' = [ttype EXCEPT ![t] = ty]
       /\ stack' = [stack EXCEPT ![t] = IF ty = TASK_TYPE_USER THEN pg ELSE @]
       /\ page' = IF pg # NoPage THEN [page EXCEPT ![pg] = "used"] ELSE page
       /\ c_pc' = [c_pc EXCEPT ![c] = "built"]
       /\ c_ret' = [c_ret EXCEPT ![c] = t]
       /\ UNCHANGED <<taskVars, cpuVars, rlVars, c_task, c_safe, c_cpu, c_group, c_busy,
                      halted, hist, idVars, c_tid, c_name, result>>

(* prepare_task(task, name, func, arg, type), reached from new_task with a *)
(* task create_task returned: ASSERT(state <= READY); name, func, arg and  *)
(* type are stored as given (a is the object arg points to);               *)
(* for a user task the stack is what get_free_page_top returned            *)
(* (pg: a free page, or NoPage when the allocation fails), stored          *)
(* unchecked; the state becomes READY and the result is ESUCCESS, so       *)
(* new_task returns the task.                                              *)
prepare_task_arg(c, nm, fn, a, ty, pg) ==
    LET t == c_task[c]
    IN /\ ~halted
       /\ c_pc[c] = "prepare"
       /\ IF ty = TASK_TYPE_USER /\ pg # NoPage THEN page[pg] = "free" ELSE pg = NoPage
       /\ IF state[t] <= TASK_STATE_READY
          THEN /\ state' = [state EXCEPT ![t] = TASK_STATE_READY]
               /\ name' = [name EXCEPT ![t] = nm]
               /\ func' = [func EXCEPT ![t] = fn]
               /\ arg' = [arg EXCEPT ![t] = a]
               /\ ttype' = [ttype EXCEPT ![t] = ty]
               /\ stack' = [stack EXCEPT ![t] = IF ty = TASK_TYPE_USER THEN pg ELSE @]
               /\ page' = IF pg # NoPage THEN [page EXCEPT ![pg] = "used"] ELSE page
               /\ hist' = IF ty = TASK_TYPE_USER /\ pg = NoPage
                          THEN [hist EXCEPT !.allocfail = @ \cup {t}] ELSE hist
               /\ UNCHANGED halted
          ELSE /\ halted' = TRUE
               /\ UNCHANGED <<state, name, func, arg, ttype, stack, page, hist>>
       /\ c_pc' = [c_pc EXCEPT ![c] = "built"]
       /\ c_ret' = [c_ret EXCEPT ![c] = t]
       /\ UNCHANGED <<mem, repeat, gid, tcpu, exec_count, handle, cpuVars, rlVars,
                      c_task, c_safe, c_cpu, c_group, c_busy, idVars, c_tid, c_name,
                      result>>

(* prepare_task(NULL, name, func, arg, type): if (!task) return -EINVAL,    *)
(* before any field is touched.                                            *)
prepare_task_null(c) ==
    /\ ~halted
    /\ c_pc[c] = "idle"
    /\ c_ret[c] # -EINVAL
    /\ c_ret' = [c_ret EXCEPT ![c] = -EINVAL]
    /\ UNCHANGED <<taskVars, cpuVars, rlVars, cVars, halted, hist, idVars, resVars,
                   c_tid, c_name, result, argVars>>

(* new_task with a function and an argument that outlive the task: the     *)
(* callers of new_kernel_task and new_user_task other than AcpiOsExecute.  *)
prepare_task(c, nm, ty, pg) == prepare_task_arg(c, nm, "f1", StaticArg, ty, pg)

(* set_task_repeat on the task new_task returned, before it is submitted. *)
set_task_repeat(c, t, r) ==
    /\ ~halted
    /\ c_pc[c] = "built" /\ c_task[c] = t
    /\ repeat[t] = TASK_REPEAT_ONCE /\ r # TASK_REPEAT_ONCE
    /\ repeat' = [repeat EXCEPT ![t] = r]
    /\ UNCHANGED <<mem, state, gid, tcpu, exec_count, handle, cpuVars, rlVars, cVars,
                   halted, hist, extVars>>

(* set_task_group, as AcpiOsExecute calls it before schedule_task. *)
set_task_group(c, t, g) ==
    /\ ~halted
    /\ c_pc[c] = "built" /\ c_task[c] = t
    /\ gid[t] = TASK_GROUP_ALL /\ g # TASK_GROUP_ALL
    /\ gid' = [gid EXCEPT ![t] = g]
    /\ UNCHANGED <<mem, state, repeat, tcpu, exec_count, handle, cpuVars, rlVars, cVars,
                   halted, hist, extVars>>

(* Variant: schedule_task without ASSERT(state == READY). *)
schedule_task_lock_NoAssert(c, t, cpu) ==
    /\ ~halted
    /\ \/ c_pc[c] = "built" /\ c_task[c] = t
       \/ c_pc[c] = "idle" /\ mem[t] = "live" /\ handle[t] = c
    /\ lock[cpu] = NoOwner
    /\ lock' = [lock EXCEPT ![cpu] = CallerId(c)]
    /\ c_pc' = [c_pc EXCEPT ![c] = "s_link"]
    /\ c_task' = [c_task EXCEPT ![c] = t]
    /\ c_cpu' = [c_cpu EXCEPT ![c] = cpu]
    /\ UNCHANGED <<taskVars, queue, blocked, finished, rlVars, c_safe, c_group, c_busy,
                   halted, hist, extVars>>

(* Variant: list_add instead of list_add_tail, the task goes to the front. *)
schedule_task_link_Front(c) ==
    LET t == c_task[c]
        cpu == c_cpu[c]
    IN /\ ~halted
       /\ c_pc[c] = "s_link"
       /\ queue' = [queue EXCEPT ![cpu] = <<t>> \o @]
       /\ tcpu' = [tcpu EXCEPT ![t] = cpu]
       /\ c_pc' = [c_pc EXCEPT ![c] = "s_state"]
       /\ hist' = [hist EXCEPT !.sub[cpu] = Append(@, t), !.policy[t] = repeat[t],
                               !.late = IF rl_pc[cpu] = "returned" THEN @ \cup {t} ELSE @]
       /\ UNCHANGED <<mem, state, repeat, gid, exec_count, handle, lock, blocked,
                      finished, rlVars, c_task, c_safe, c_cpu, c_group, c_busy, halted, extVars>>

(* Variant: schedule_task without the test of cpu marks the task          *)
(* SCHEDULED before it fails.                                              *)
schedule_task_nocpu_NoTest(c, t) ==
    /\ ~halted
    /\ \/ c_pc[c] = "built" /\ c_task[c] = t
       \/ c_pc[c] = "idle" /\ mem[t] = "live" /\ handle[t] = c
    /\ c_ret[c] # -EEXIST
    /\ c_ret' = [c_ret EXCEPT ![c] = -EEXIST]
    /\ state' = [state EXCEPT ![t] = TASK_STATE_SCHEDULED]
    /\ hist' = [hist EXCEPT !.nocpu = @ \cup {t}]
    /\ UNCHANGED <<mem, repeat, gid, tcpu, exec_count, handle, cpuVars, rlVars, cVars,
                   halted, idVars, resVars, c_tid, c_name,
                   result, argVars>>

(* ----------------------------- schedule_task --------------------------- *)
(* schedule_task(task, NULL): ASSERT(task) passes, if (!cpu) logs a        *)
(* warning and returns -EEXIST, before the state of the task is looked at. *)
(* The caller passes the task it has just built, or one it submitted       *)
(* before; it keeps the task.                                              *)
schedule_task_nocpu(c, t) ==
    /\ ~halted
    /\ \/ c_pc[c] = "built" /\ c_task[c] = t
       \/ c_pc[c] = "idle" /\ mem[t] = "live" /\ handle[t] = c
    /\ c_ret[c] # -EEXIST
    /\ c_ret' = [c_ret EXCEPT ![c] = -EEXIST]
    /\ hist' = [hist EXCEPT !.nocpu = @ \cup {t}]
    /\ UNCHANGED <<taskVars, cpuVars, rlVars, cVars, halted, idVars, resVars,
                   c_tid, c_name,
                   result, argVars>>

(* schedule_task(task, cpu) up to and including spin_lock(&cpu->lock).     *)
(* ASSERT(state == READY) stops the system when the task is in any other   *)
(* state; a READY task is private to its caller, so the check and the      *)
(* taking of the lock are one step.  The caller submits the task it has    *)
(* just built, or calls again with a task it submitted before and that is  *)
(* not destroyed yet.                                                      *)
schedule_task_lock(c, t, cpu) ==
    /\ ~halted
    /\ \/ c_pc[c] = "built" /\ c_task[c] = t
       \/ c_pc[c] = "idle" /\ mem[t] = "live" /\ handle[t] = c
    /\ IF state[t] = TASK_STATE_READY
       THEN /\ lock[cpu] = NoOwner
            /\ lock' = [lock EXCEPT ![cpu] = CallerId(c)]
            /\ c_pc' = [c_pc EXCEPT ![c] = "s_link"]
            /\ c_task' = [c_task EXCEPT ![c] = t]
            /\ c_cpu' = [c_cpu EXCEPT ![c] = cpu]
            /\ UNCHANGED <<halted, hist>>
       ELSE /\ halted' = TRUE
            /\ hist' = [hist EXCEPT !.rejected = @ \cup {t}]
            /\ UNCHANGED <<lock, c_pc, c_task, c_cpu>>
    /\ UNCHANGED <<taskVars, queue, blocked, finished, rlVars, c_safe, c_group, c_busy, extVars>>

(* schedule_task up to spin_lock, for the properties about a caller that   *)
(* waits for the lock: the tests of the task and of the processor, and the *)
(* printk; the caller is at spin_lock(&cpu->lock) next.                    *)
schedule_task_assert(c, t, cpu) ==
    /\ ~halted
    /\ \/ c_pc[c] = "built" /\ c_task[c] = t
       \/ c_pc[c] = "idle" /\ mem[t] = "live" /\ handle[t] = c
    /\ IF state[t] = TASK_STATE_READY
       THEN /\ c_pc' = [c_pc EXCEPT ![c] = "s_lock"]
            /\ c_task' = [c_task EXCEPT ![c] = t]
            /\ c_cpu' = [c_cpu EXCEPT ![c] = cpu]
            /\ UNCHANGED <<halted, hist>>
       ELSE /\ halted' = TRUE
            /\ hist' = [hist EXCEPT !.rejected = @ \cup {t}]
            /\ UNCHANGED <<c_pc, c_task, c_cpu>>
    /\ UNCHANGED <<taskVars, cpuVars, rlVars, c_safe, c_group, c_busy, extVars>>

(* spin_lock(&cpu->lock) returns: the lock was free and the caller holds   *)
(* it.                                                                     *)
schedule_task_spin(c) ==
    /\ ~halted
    /\ c_pc[c] = "s_lock"
    /\ lock[c_cpu[c]] = NoOwner
    /\ lock' = [lock EXCEPT ![c_cpu[c]] = CallerId(c)]
    /\ c_pc' = [c_pc EXCEPT ![c] = "s_link"]
    /\ UNCHANGED <<taskVars, queue, blocked, finished, rlVars, c_task, c_safe, c_cpu,
                   c_group, c_busy, halted, hist, extVars>>

(* Variant: the owner stored is always the primary processor. *)
schedule_task_link_OwnerBsp(c) ==
    LET t == c_task[c]
        cpu == c_cpu[c]
    IN /\ ~halted
       /\ c_pc[c] = "s_link"
       /\ queue' = [queue EXCEPT ![cpu] = Append(@, t)]
       /\ tcpu' = [tcpu EXCEPT ![t] = bsp_cpu_id]
       /\ c_pc' = [c_pc EXCEPT ![c] = "s_state"]
       /\ hist' = [hist EXCEPT !.sub[cpu] = Append(@, t), !.policy[t] = repeat[t],
                               !.late = IF rl_pc[cpu] = "returned" THEN @ \cup {t} ELSE @]
       /\ UNCHANGED <<mem, state, repeat, gid, exec_count, handle, lock, blocked,
                      finished, rlVars, c_task, c_safe, c_cpu, c_group, c_busy, halted,
                      extVars>>

(* list_add_tail(&task->list, &cpu->task_queue); task->cpu = cpu *)
schedule_task_link(c) ==
    LET t == c_task[c]
        cpu == c_cpu[c]
    IN /\ ~halted
       /\ c_pc[c] = "s_link"
       /\ queue' = [queue EXCEPT ![cpu] = Append(@, t)]
       /\ tcpu' = [tcpu EXCEPT ![t] = cpu]
       /\ c_pc' = [c_pc EXCEPT ![c] = "s_state"]
       /\ hist' = [hist EXCEPT !.sub[cpu] = Append(@, t), !.policy[t] = repeat[t],
                               !.late = IF rl_pc[cpu] = "returned" THEN @ \cup {t} ELSE @]
       /\ UNCHANGED <<mem, state, repeat, gid, exec_count, handle, lock, blocked,
                      finished, rlVars, c_task, c_safe, c_cpu, c_group, c_busy, halted, extVars>>

(* Variant: schedule_task marks the task RUNNING. *)
schedule_task_state_Running(c) ==
    /\ ~halted
    /\ c_pc[c] = "s_state"
    /\ state' = [state EXCEPT ![c_task[c]] = TASK_STATE_RUNNING]
    /\ c_pc' = [c_pc EXCEPT ![c] = "s_unlock"]
    /\ UNCHANGED <<mem, repeat, gid, tcpu, exec_count, handle, cpuVars, rlVars,
                   c_task, c_safe, c_cpu, c_group, c_busy, halted, hist, extVars>>

(* set_task_state(task, TASK_STATE_SCHEDULED) *)
schedule_task_state(c) ==
    /\ ~halted
    /\ c_pc[c] = "s_state"
    /\ state' = [state EXCEPT ![c_task[c]] = TASK_STATE_SCHEDULED]
    /\ c_pc' = [c_pc EXCEPT ![c] = "s_unlock"]
    /\ UNCHANGED <<mem, repeat, gid, tcpu, exec_count, handle, cpuVars, rlVars,
                   c_task, c_safe, c_cpu, c_group, c_busy, halted, hist, extVars>>

(* spin_unlock(&cpu->lock); return 0 *)
schedule_task_unlock(c) ==
    /\ ~halted
    /\ c_pc[c] = "s_unlock"
    /\ lock' = [lock EXCEPT ![c_cpu[c]] = NoOwner]
    /\ c_pc' = [c_pc EXCEPT ![c] = "idle"]
    /\ c_task' = [c_task EXCEPT ![c] = HEAD]
    /\ c_cpu' = [c_cpu EXCEPT ![c] = bsp_cpu_id]
    /\ c_ret' = [c_ret EXCEPT ![c] = 0]
    /\ UNCHANGED <<taskVars, queue, blocked, finished, rlVars,
                   c_safe, c_group, c_busy, halted, hist, idVars, resVars, c_tid, c_name,
                   result, argVars>>

(* ------------------------------ run_tasks ------------------------------ *)
(* The primary processor's startup sequence unblocks a secondary one. *)
unblock_cpu(cpu) ==
    /\ ~halted
    /\ blocked[cpu]
    /\ rl_pc[cpu] = "start"
    /\ blocked' = [blocked EXCEPT ![cpu] = FALSE]
    /\ UNCHANGED <<taskVars, queue, lock, finished, rlVars, cVars, halted, hist, extVars>>

(* Variant: run_tasks without wait_cpu_unblocked. *)
run_tasks_enter_NoWait(cpu) ==
    /\ ~halted
    /\ rl_pc[cpu] = "start"
    /\ finished' = [finished EXCEPT ![cpu] = FALSE]
    /\ rl_pc' = [rl_pc EXCEPT ![cpu] = "load"]
    /\ UNCHANGED <<taskVars, queue, lock, blocked, rl_task, rl_safe, cVars, halted, hist,
                   extVars>>

(* run_tasks entry: wait_cpu_unblocked unless bsp, set_cpu_unfinished. *)
run_tasks_enter(cpu) ==
    /\ ~halted
    /\ rl_pc[cpu] = "start"
    /\ is_cpu_bsp(cpu) \/ ~blocked[cpu]
    /\ finished' = [finished EXCEPT ![cpu] = FALSE]
    /\ rl_pc' = [rl_pc EXCEPT ![cpu] = "load"]
    /\ UNCHANGED <<taskVars, queue, lock, blocked, rl_task, rl_safe, cVars, halted, hist, extVars>>

(* A scan starts: the queue is not empty (at the do, or at the while after  *)
(* the scan before), and list_for_each_entry_safe sets task to the first   *)
(* entry and safe to the one after it.                                     *)
run_tasks_scan(cpu) ==
    /\ ~halted
    /\ rl_pc[cpu] = "load"
    /\ ~list_is_empty(cpu)
    /\ rl_task' = [rl_task EXCEPT ![cpu] = First(cpu)]
    /\ rl_safe' = [rl_safe EXCEPT ![cpu] = NextOf(cpu, First(cpu))]
    /\ rl_pc' = [rl_pc EXCEPT ![cpu] = "scan"]
    /\ UNCHANGED <<taskVars, cpuVars, cVars, halted, hist, extVars>>

(* Variant: the loop is left without the test of the queue. *)
run_tasks_leave_NoTest(cpu) ==
    /\ ~halted
    /\ rl_pc[cpu] = "load"
    /\ rl_pc' = [rl_pc EXCEPT ![cpu] = "exit"]
    /\ UNCHANGED <<taskVars, cpuVars, rl_task, rl_safe, cVars, halted, hist, extVars>>

(* while (!list_is_empty(&cpu->task_queue)) finds the queue empty: the    *)
(* loop is left.                                                           *)
run_tasks_leave(cpu) ==
    /\ ~halted
    /\ rl_pc[cpu] = "load"
    /\ list_is_empty(cpu)
    /\ rl_pc' = [rl_pc EXCEPT ![cpu] = "exit"]
    /\ UNCHANGED <<taskVars, cpuVars, rl_task, rl_safe, cVars, halted, hist, extVars>>

(* After the loop, on a processor that is not the bsp: set_cpu_blocked. *)
run_tasks_block(cpu) ==
    /\ ~halted
    /\ rl_pc[cpu] = "exit"
    /\ ~is_cpu_bsp(cpu)
    /\ blocked' = [blocked EXCEPT ![cpu] = TRUE]
    /\ rl_pc' = [rl_pc EXCEPT ![cpu] = "blocked"]
    /\ UNCHANGED <<taskVars, queue, lock, finished, rl_task, rl_safe, cVars, halted, hist,
                   extVars>>

(* set_cpu_finished and return: straight after the loop on the bsp, after  *)
(* set_cpu_blocked on any other processor.                                 *)
run_tasks_exit(cpu) ==
    /\ ~halted
    /\ rl_pc[cpu] = IF is_cpu_bsp(cpu) THEN "exit" ELSE "blocked"
    /\ finished' = [finished EXCEPT ![cpu] = TRUE]
    /\ rl_pc' = [rl_pc EXCEPT ![cpu] = "returned"]
    /\ UNCHANGED <<taskVars, queue, lock, blocked, rl_task, rl_safe, cVars, halted, hist,
                   extVars>>

(* The step of list_for_each_entry_safe after the loop body and cpu_relax: *)
(* task = safe, safe = the entry after it; the scan ends at the head.      *)
Advance(cpu) ==
    /\ rl_task' = [rl_task EXCEPT ![cpu] = rl_safe[cpu]]
    /\ rl_safe' = [rl_safe EXCEPT ![cpu] =
                      IF rl_safe[cpu] = HEAD THEN HEAD ELSE NextOf(cpu, rl_safe[cpu])]
    /\ rl_pc' = [rl_pc EXCEPT ![cpu] = IF rl_safe[cpu] = HEAD THEN "load" ELSE "scan"]

(* Variant: the stored count is not decremented. *)
RepeatAfter_NoDecrement(r) == r

(* process_task_repeat for a task that is not destroyed: LOOP keeps the    *)
(* repeat value, any other value is decremented; the state goes back to    *)
(* SCHEDULED.                                                              *)
RepeatAfter(r) == IF r = TASK_REPEAT_LOOP THEN r ELSE r - 1

(* Variant: process_task_repeat without the ONCE case, every task is       *)
(* rescheduled.                                                            *)
run_tasks_done_RecycleOnce(cpu) ==
    LET t == rl_task[cpu]
    IN /\ ~halted
       /\ rl_pc[cpu] = "scan"
       /\ state[t] = TASK_STATE_DONE
       /\ repeat' = [repeat EXCEPT ![t] = RepeatAfter(repeat[t])]
       /\ state' = [state EXCEPT ![t] = TASK_STATE_SCHEDULED]
       /\ Advance(cpu)
       /\ UNCHANGED <<mem, gid, tcpu, exec_count, handle, cpuVars, cVars, halted, hist, extVars>>

(* Variant: a recycled task starts again with exec_count 0. *)
run_tasks_done_ResetCount(cpu) ==
    LET t == rl_task[cpu]
    IN /\ ~halted
       /\ rl_pc[cpu] = "scan"
       /\ state[t] = TASK_STATE_DONE
       /\ IF repeat[t] = TASK_REPEAT_ONCE
          THEN /\ rl_pc' = [rl_pc EXCEPT ![cpu] = "d_lock"]
               /\ UNCHANGED <<state, repeat, exec_count, rl_task, rl_safe>>
          ELSE /\ repeat' = [repeat EXCEPT ![t] = RepeatAfter(repeat[t])]
               /\ state' = [state EXCEPT ![t] = TASK_STATE_SCHEDULED]
               /\ exec_count' = [exec_count EXCEPT ![t] = 0]
               /\ Advance(cpu)
       /\ UNCHANGED <<mem, gid, tcpu, handle, cpuVars, cVars, halted, hist, extVars>>

(* switch (task->state), case TASK_STATE_DONE: process_task_repeat. *)
run_tasks_done(cpu) ==
    LET t == rl_task[cpu]
    IN /\ ~halted
       /\ rl_pc[cpu] = "scan"
       /\ state[t] = TASK_STATE_DONE
       /\ IF repeat[t] = TASK_REPEAT_ONCE
          THEN /\ rl_pc' = [rl_pc EXCEPT ![cpu] = "d_lock"]
               /\ UNCHANGED <<state, repeat, rl_task, rl_safe>>
          ELSE /\ repeat' = [repeat EXCEPT ![t] = RepeatAfter(repeat[t])]
               /\ state' = [state EXCEPT ![t] = TASK_STATE_SCHEDULED]
               /\ Advance(cpu)
       /\ UNCHANGED <<mem, gid, tcpu, exec_count, handle, cpuVars, cVars, halted, hist, extVars>>

(* Variant: destroy_task without spin_lock. *)
destroy_task_lock_NoLock(cpu) ==
    /\ ~halted
    /\ rl_pc[cpu] = "d_lock"
    /\ rl_pc' = [rl_pc EXCEPT ![cpu] = "d_unlink"]
    /\ UNCHANGED <<taskVars, cpuVars, rl_task, rl_safe, cVars, halted, hist, extVars>>

(* destroy_task: spin_lock(&task->cpu->lock) *)
destroy_task_lock(cpu) ==
    /\ ~halted
    /\ rl_pc[cpu] = "d_lock"
    /\ lock[tcpu[rl_task[cpu]]] = NoOwner
    /\ lock' = [lock EXCEPT ![tcpu[rl_task[cpu]]] = RunLoopId(cpu)]
    /\ rl_pc' = [rl_pc EXCEPT ![cpu] = "d_unlink"]
    /\ UNCHANGED <<taskVars, queue, blocked, finished, rl_task, rl_safe, cVars,
                   halted, hist, extVars>>

(* destroy_task: list_unlink, put_page_top if the task has a stack,        *)
(* spin_unlock, kfree; then the scan goes on.                              *)
destroy_task_unlink(cpu) ==
    LET t == rl_task[cpu]
    IN /\ ~halted
       /\ rl_pc[cpu] = "d_unlink"
       /\ queue' = [queue EXCEPT ![tcpu[t]] = Unlink(@, t)]
       /\ page' = IF stack[t] # NoPage THEN [page EXCEPT ![stack[t]] = "free"] ELSE page
       /\ hist' = IF stack[t] # NoPage THEN [hist EXCEPT !.puts[t] = @ + 1] ELSE hist
       /\ lock' = [lock EXCEPT ![tcpu[t]] = NoOwner]
       /\ mem' = [mem EXCEPT ![t] = "freed"]
       /\ Advance(cpu)
       /\ UNCHANGED <<state, repeat, gid, tcpu, exec_count, handle, blocked, finished,
                      cVars, halted, idVars, name, ttype, stack, retVars,
                   result, argVars>>

(* destroy_task(task) for a task new_task returned and nobody submitted:   *)
(* task->cpu is still the null pointer memset left, so                     *)
(* spin_lock(&task->cpu->lock) and list_unlink(&task->list) go through     *)
(* null pointers.  The outcome is undefined: the access faults and the     *)
(* system stops, or it lands in mapped low memory and destroy_task goes on *)
(* to release the stack page, if any, and the task object.                 *)
destroy_task_unsubmitted(c, fault) ==
    LET t == c_task[c]
    IN /\ ~halted
       /\ c_pc[c] = "built"
       /\ tcpu[t] = NoCpu
       /\ IF fault
          THEN /\ halted' = TRUE
               /\ UNCHANGED <<mem, page, c_pc, c_task, c_ret>>
               /\ hist' = [hist EXCEPT !.early = @ \cup {t}]
          ELSE /\ page' = IF stack[t] # NoPage
                          THEN [page EXCEPT ![stack[t]] = "free"] ELSE page
               /\ mem' = [mem EXCEPT ![t] = "freed"]
               /\ c_pc' = [c_pc EXCEPT ![c] = "idle"]
               /\ c_task' = [c_task EXCEPT ![c] = HEAD]
               /\ c_ret' = [c_ret EXCEPT ![c] = 0]
               /\ hist' = [hist EXCEPT !.early = @ \cup {t},
                                       !.puts[t] = IF stack[t] # NoPage THEN @ + 1 ELSE @]
               /\ UNCHANGED halted
       /\ UNCHANGED <<state, repeat, gid, tcpu, exec_count, handle, cpuVars, rlVars,
                      c_safe, c_cpu, c_group, c_busy, idVars, name, ttype, stack,
                      c_tid, c_name,
                   result, argVars>>

(* Variant: the run loop also runs a task it finds DONE. *)
run_task_AlsoDone(cpu) ==
    LET t == rl_task[cpu]
    IN /\ ~halted
       /\ rl_pc[cpu] = "scan"
       /\ state[t] \in {TASK_STATE_SCHEDULED, TASK_STATE_DONE}
       /\ exec_count[t] < MaxExec
       /\ exec_count' = [exec_count EXCEPT ![t] = @ + 1]
       /\ state' = [state EXCEPT ![t] = TASK_STATE_RUNNING]
       /\ rl_pc' = [rl_pc EXCEPT ![cpu] = "r_func"]
       /\ hist' = [hist EXCEPT !.run[cpu] = IF exec_count[t] = 0 THEN Append(@, t) ELSE @,
                               !.calls[t] = @ + 1]
       /\ UNCHANGED <<mem, repeat, gid, tcpu, handle, cpuVars, rl_task, rl_safe,
                      cVars, halted, extVars>>

(* AcpiOsExecute hands new_kernel_task the addresses of two of its local   *)
(* variables: name (char name[40]) and, as the task's argument, cb (the    *)
(* osd_exec_cb_wrapper that holds Function and Context).  arg[t] = c says  *)
(* that task->name and task->arg point into the frame of caller c's        *)
(* AcpiOsExecute call; the frame lives until that call returns, which is   *)
(* when schedule_task has returned.                                        *)
InAcpiOsExecute(c, t) ==
    /\ c_task[c] = t
    /\ c_pc[c] \in {"prepare", "built", "s_lock", "s_link", "s_state", "s_unlock"}

ArgValid(t) == arg[t] \in Callers => InAcpiOsExecute(arg[t], t)

(* task->func(task->arg): _osd_exec_cb_wrapper reads cb->Function and      *)
(* cb->Context through arg.  Reading an object whose lifetime has ended is *)
(* undefined: the old contents may still be there (FALSE) or not (TRUE).   *)
Indeterminate(t) == IF ArgValid(t) THEN {FALSE} ELSE {FALSE, TRUE}

(* switch (task->state), case TASK_STATE_SCHEDULED: run_task up to the     *)
(* call of the task's function: wait_for_task_state returns at once (only  *)
(* this loop changes the state of a SCHEDULED task), exec_count is         *)
(* incremented and then the state becomes RUNNING; the two stores are one  *)
(* step here (run_task_inc and run_task_running take them apart).          *)
run_task(cpu) ==
    LET t == rl_task[cpu]
    IN /\ ~halted
       /\ rl_pc[cpu] = "scan"
       /\ state[t] = TASK_STATE_SCHEDULED
       /\ exec_count[t] < MaxExec
       /\ exec_count' = [exec_count EXCEPT ![t] = @ + 1]
       /\ state' = [state EXCEPT ![t] = TASK_STATE_RUNNING]
       /\ rl_pc' = [rl_pc EXCEPT ![cpu] = "r_func"]
       /\ \E w \in Indeterminate(t) :
              hist' = [hist EXCEPT !.run[cpu] = IF exec_count[t] = 0 THEN Append(@, t) ELSE @,
                                   !.calls[t] = @ + 1,
                                   !.wild = IF w THEN @ \cup {t} ELSE @]
       /\ UNCHANGED <<mem, repeat, gid, tcpu, handle, cpuVars, rl_task, rl_safe,
                      cVars, halted, extVars>>

(* Variant: the scan goes on while the task's function is still running. *)
run_task_done_Early(cpu) ==
    /\ ~halted
    /\ rl_pc[cpu] = "r_func"
    /\ Advance(cpu)
    /\ UNCHANGED <<taskVars, cpuVars, cVars, halted, hist, extVars>>

(* run_task: the function returns, its value is stored in task->result,   *)
(* set_task_state(task, TASK_STATE_DONE).  The value the function returns *)
(* at its k-th execution is written k, so that the results of two         *)
(* executions differ.                                                      *)
run_task_done(cpu) ==
    LET t == rl_task[cpu]
    IN /\ ~halted
       /\ rl_pc[cpu] = "r_func"
       /\ result' = [result EXCEPT ![t] = exec_count[t]]
       /\ state' = [state EXCEPT ![t] = TASK_STATE_DONE]
       /\ Advance(cpu)
       /\ UNCHANGED <<mem, repeat, gid, tcpu, exec_count, handle, cpuVars, cVars,
                      halted, hist, idVars, resVars, retVars, argVars>>

(* run_task, statement by statement, for the properties that read a task's *)
(* fields between two of its stores.  First: wait_for_task_state returns   *)
(* with the state SCHEDULED and atomic64_inc_return increments exec_count. *)
run_task_inc(cpu) ==
    LET t == rl_task[cpu]
    IN /\ ~halted
       /\ rl_pc[cpu] = "scan"
       /\ state[t] = TASK_STATE_SCHEDULED
       /\ exec_count[t] < MaxExec
       /\ exec_count' = [exec_count EXCEPT ![t] = @ + 1]
       /\ rl_pc' = [rl_pc EXCEPT ![cpu] = "r_state"]
       /\ hist' = [hist EXCEPT !.run[cpu] = IF exec_count[t] = 0 THEN Append(@, t) ELSE @]
       /\ UNCHANGED <<mem, state, repeat, gid, tcpu, handle, cpuVars, rl_task, rl_safe,
                      cVars, halted, extVars>>

(* run_task: set_task_state(task, TASK_STATE_RUNNING); the function is     *)
(* called next.                                                            *)
run_task_running(cpu) ==
    LET t == rl_task[cpu]
    IN /\ ~halted
       /\ rl_pc[cpu] = "r_state"
       /\ state' = [state EXCEPT ![t] = TASK_STATE_RUNNING]
       /\ rl_pc' = [rl_pc EXCEPT ![cpu] = "r_func"]
       /\ \E w \in Indeterminate(t) :
              hist' = [hist EXCEPT !.calls[t] = @ + 1,
                                   !.wild = IF w THEN @ \cup {t} ELSE @]
       /\ UNCHANGED <<mem, repeat, gid, tcpu, exec_count, handle, cpuVars, rl_task,
                      rl_safe, cVars, halted, extVars>>

(* Variant: the value the function returned is not stored. *)
run_task_result_NoStore(cpu) ==
    /\ ~halted
    /\ rl_pc[cpu] = "r_func"
    /\ rl_pc' = [rl_pc EXCEPT ![cpu] = "r_result"]
    /\ UNCHANGED <<taskVars, cpuVars, rl_task, rl_safe, cVars, halted, hist, extVars>>

(* run_task: the function returns and its value is stored in task->result. *)
run_task_result(cpu) ==
    LET t == rl_task[cpu]
    IN /\ ~halted
       /\ rl_pc[cpu] = "r_func"
       /\ result' = [result EXCEPT ![t] = exec_count[t]]
       /\ rl_pc' = [rl_pc EXCEPT ![cpu] = "r_result"]
       /\ UNCHANGED <<taskVars, cpuVars, rl_task, rl_safe, cVars, halted, hist,
                      idVars, resVars, retVars, argVars>>

(* run_task: set_task_state(task, TASK_STATE_DONE); then cpu_relax and the *)
(* scan goes on.                                                           *)
run_task_finish(cpu) ==
    LET t == rl_task[cpu]
    IN /\ ~halted
       /\ rl_pc[cpu] = "r_result"
       /\ state' = [state EXCEPT ![t] = TASK_STATE_DONE]
       /\ Advance(cpu)
       /\ UNCHANGED <<mem, repeat, gid, tcpu, exec_count, handle, cpuVars, cVars,
                      halted, hist, extVars>>

(* switch (task->state), default: BUG(). *)
run_tasks_bug(cpu) ==
    /\ ~halted
    /\ rl_pc[cpu] = "scan"
    /\ state[rl_task[cpu]] \notin {TASK_STATE_DONE, TASK_STATE_SCHEDULED}
    /\ halted' = TRUE
    /\ UNCHANGED <<taskVars, cpuVars, rlVars, cVars, hist, extVars>>

(* -------------------------- wait_for_task_group ------------------------ *)
(* One pass of the do-while loop starts: busy = false and the              *)
(* initialisation of list_for_each_entry_safe.                             *)
PassBegin(c, cpu) ==
    /\ c_busy' = [c_busy EXCEPT ![c] = FALSE]
    /\ c_task' = [c_task EXCEPT ![c] = First(cpu)]
    /\ c_safe' = [c_safe EXCEPT ![c] =
                     IF First(cpu) = HEAD THEN HEAD ELSE NextOf(cpu, First(cpu))]

(* The step of list_for_each_entry_safe in wait_for_task_group: task =     *)
(* safe, safe = the entry after it, read from the task safe points to.     *)
WaitAdvance(c, nxt) ==
    /\ c_task' = [c_task EXCEPT ![c] = c_safe[c]]
    /\ c_safe' = [c_safe EXCEPT ![c] = nxt]
    /\ c_pc' = [c_pc EXCEPT ![c] = "w_exam"]

AdvanceReads(c) ==
    IF c_safe[c] = HEAD THEN {HEAD} ELSE NextPtrs(c_cpu[c], c_safe[c])

AdvanceUaf(c) == c_safe[c] # HEAD /\ mem[c_safe[c]] # "live"

(* Variant: wait_for_task_group takes the queue's lock for its scan. *)
wait_for_task_group_call_Locked(c, cpu, group) ==
    /\ ~halted
    /\ c_pc[c] = "idle"
    /\ lock[cpu] = NoOwner
    /\ lock' = [lock EXCEPT ![cpu] = CallerId(c)]
    /\ c_cpu' = [c_cpu EXCEPT ![c] = cpu]
    /\ c_group' = [c_group EXCEPT ![c] = group]
    /\ PassBegin(c, cpu)
    /\ c_pc' = [c_pc EXCEPT ![c] = "w_exam"]
    /\ hist' = [hist EXCEPT !.nondone[c] = FALSE, !.sawdone[c] = FALSE]
    /\ UNCHANGED <<taskVars, queue, blocked, finished, rlVars, halted, extVars>>

(* wait_for_task_group(cpu, group) is called. *)
wait_for_task_group_call(c, cpu, group) ==
    /\ ~halted
    /\ c_pc[c] = "idle"
    /\ c_cpu' = [c_cpu EXCEPT ![c] = cpu]
    /\ c_group' = [c_group EXCEPT ![c] = group]
    /\ PassBegin(c, cpu)
    /\ c_pc' = [c_pc EXCEPT ![c] = "w_exam"]
    /\ hist' = [hist EXCEPT !.nondone[c] = FALSE, !.sawdone[c] = FALSE]
    /\ UNCHANGED <<taskVars, cpuVars, rlVars, halted, extVars>>

(* group != TASK_GROUP_ALL && task->gid != group: the task is skipped. *)
Skipped(group, g) == group # TASK_GROUP_ALL /\ g # group

(* Variant: busy is not set before wait_for_task_state. *)
wait_for_task_group_examine_NoBusy(c) ==
    LET t == c_task[c]
    IN /\ ~halted
       /\ c_pc[c] = "w_exam"
       /\ t # HEAD
       /\ IF ~Skipped(c_group[c], gid[t]) /\ state[t] # TASK_STATE_DONE
          THEN /\ c_pc' = [c_pc EXCEPT ![c] = "w_spin"]
               /\ UNCHANGED <<c_task, c_safe>>
          ELSE /\ \E nxt \in AdvanceReads(c) : WaitAdvance(c, nxt)
       /\ UNCHANGED c_busy
       /\ hist' = [hist EXCEPT
             !.uaf = @ \/ mem[t] # "live"
                       \/ (AdvanceUaf(c) /\ c_pc'[c] = "w_exam"),
             !.nondone[c] = @ \/ (~Skipped(c_group[c], gid[t])
                                    /\ state[t] # TASK_STATE_DONE),
             !.sawdone[c] = @ \/ (~Skipped(c_group[c], gid[t])
                                    /\ state[t] = TASK_STATE_DONE)]
       /\ UNCHANGED <<taskVars, cpuVars, rlVars, c_cpu, c_group, halted, extVars>>

(* Variant: the loop body without the test of the group. *)
wait_for_task_group_examine_NoFilter(c) ==
    LET t == c_task[c]
    IN /\ ~halted
       /\ c_pc[c] = "w_exam"
       /\ t # HEAD
       /\ IF state[t] # TASK_STATE_DONE
          THEN /\ c_busy' = [c_busy EXCEPT ![c] = TRUE]
               /\ c_pc' = [c_pc EXCEPT ![c] = "w_spin"]
               /\ UNCHANGED <<c_task, c_safe>>
          ELSE /\ \E nxt \in AdvanceReads(c) : WaitAdvance(c, nxt)
               /\ UNCHANGED c_busy
       /\ hist' = [hist EXCEPT
             !.uaf = @ \/ mem[t] # "live"
                       \/ (AdvanceUaf(c) /\ c_pc'[c] = "w_exam"),
             !.nondone[c] = @ \/ state[t] # TASK_STATE_DONE,
             !.sawdone[c] = @ \/ state[t] = TASK_STATE_DONE]
       /\ UNCHANGED <<taskVars, cpuVars, rlVars, c_cpu, c_group, halted, extVars>>

(* The loop body for one task: skip it if its group does not match, go on  *)
(* if it is DONE, else set busy and enter wait_for_task_state.             *)
wait_for_task_group_examine(c) ==
    LET t == c_task[c]
    IN /\ ~halted
       /\ c_pc[c] = "w_exam"
       /\ t # HEAD
       /\ IF ~Skipped(c_group[c], gid[t]) /\ state[t] # TASK_STATE_DONE
          THEN /\ c_busy' = [c_busy EXCEPT ![c] = TRUE]
               /\ c_pc' = [c_pc EXCEPT ![c] = "w_spin"]
               /\ UNCHANGED <<c_task, c_safe>>
          ELSE /\ \E nxt \in AdvanceReads(c) : WaitAdvance(c, nxt)
               /\ UNCHANGED c_busy
       /\ hist' = [hist EXCEPT
             !.uaf = @ \/ mem[t] # "live"
                       \/ (AdvanceUaf(c) /\ c_pc'[c] = "w_exam"),
             !.nondone[c] = @ \/ (~Skipped(c_group[c], gid[t])
                                    /\ state[t] # TASK_STATE_DONE),
             !.sawdone[c] = @ \/ (~Skipped(c_group[c], gid[t])
                                    /\ state[t] = TASK_STATE_DONE)]
       /\ UNCHANGED <<taskVars, cpuVars, rlVars, c_cpu, c_group, halted, extVars>>

(* wait_for_task_state(task, TASK_STATE_DONE): the poll that ends the      *)
(* busy-wait; a poll that reads another state changes nothing.             *)
wait_for_task_state(c) ==
    LET t == c_task[c]
    IN /\ ~halted
       /\ c_pc[c] = "w_spin"
       /\ state[t] = TASK_STATE_DONE
       /\ \E nxt \in AdvanceReads(c) : WaitAdvance(c, nxt)
       /\ hist' = [hist EXCEPT !.uaf = @ \/ mem[t] # "live" \/ AdvanceUaf(c)]
       /\ UNCHANGED <<taskVars, cpuVars, rlVars, c_cpu, c_group, c_busy, halted, extVars>>

(* kzalloc hands the memory of a freed task out again, zeroed: a stale     *)
(* pointer to the task now reads state 0, group 0 and no name.             *)
kzalloc_reuse(t) ==
    /\ ~halted
    /\ mem[t] = "freed"
    /\ state[t] # 0
    /\ state' = [state EXCEPT ![t] = 0]
    /\ gid' = [gid EXCEPT ![t] = 0]
    /\ name' = [name EXCEPT ![t] = NoName]
    /\ UNCHANGED <<mem, repeat, tcpu, exec_count, handle, cpuVars, rlVars, cVars,
                   halted, hist, idVars, ttype, stack, page, retVars,
                   result, argVars>>

(* -------------------------- get_task_by_name --------------------------- *)
(* get_task_by_name(cpu, name) is called: list_for_each_entry sets task to *)
(* the first entry of cpu's queue.  No lock is taken.                      *)
get_task_by_name_call(c, cpu, nm) ==
    /\ ~halted
    /\ c_pc[c] = "idle"
    /\ c_cpu' = [c_cpu EXCEPT ![c] = cpu]
    /\ c_name' = [c_name EXCEPT ![c] = nm]
    /\ c_task' = [c_task EXCEPT ![c] = First(cpu)]
    /\ c_pc' = [c_pc EXCEPT ![c] = "g_cmp"]
    /\ hist' = [hist EXCEPT !.snap[c] = queue[cpu]]
    /\ UNCHANGED <<taskVars, cpuVars, rlVars, c_safe, c_group, c_busy, halted,
                   idVars, resVars, c_ret, c_tid,
                   result, argVars>>

(* One turn of list_for_each_entry: at the list head the result is NULL;   *)
(* else string_equal(task->name, name) is evaluated and the result is the  *)
(* task, or task becomes the entry task->list.next points to.              *)
get_task_by_name_step(c) ==
    LET t == c_task[c]
    IN /\ ~halted
       /\ c_pc[c] = "g_cmp"
       /\ IF t = HEAD
          THEN /\ c_ret' = [c_ret EXCEPT ![c] = NoTask]
               /\ c_pc' = [c_pc EXCEPT ![c] = "g_ret"]
               /\ UNCHANGED <<c_task, hist>>
          ELSE /\ hist' = [hist EXCEPT !.uaf = @ \/ mem[t] # "live"]
               /\ IF name[t] = c_name[c]
                  THEN /\ c_ret' = [c_ret EXCEPT ![c] = t]
                       /\ c_pc' = [c_pc EXCEPT ![c] = "g_ret"]
                       /\ UNCHANGED c_task
                  ELSE /\ \E nxt \in NextPtrs(c_cpu[c], t) :
                             c_task' = [c_task EXCEPT ![c] = nxt]
                       /\ UNCHANGED <<c_ret, c_pc>>
       /\ UNCHANGED <<taskVars, cpuVars, rlVars, c_safe, c_cpu, c_group, c_busy, halted,
                      idVars, resVars, c_tid, c_name,
                   result, argVars>>

(* The caller has taken the result of get_task_by_name. *)
get_task_by_name_return(c) ==
    /\ ~halted
    /\ c_pc[c] = "g_ret"
    /\ c_pc' = [c_pc EXCEPT ![c] = "idle"]
    /\ c_task' = [c_task EXCEPT ![c] = HEAD]
    /\ c_cpu' = [c_cpu EXCEPT ![c] = bsp_cpu_id]
    /\ c_name' = [c_name EXCEPT ![c] = NoName]
    /\ c_ret' = [c_ret EXCEPT ![c] = 0]
    /\ hist' = [hist EXCEPT !.snap[c] = <<>>]
    /\ UNCHANGED <<taskVars, cpuVars, rlVars, c_safe, c_group, c_busy, halted,
                   idVars, resVars, c_tid,
                   result, argVars>>

(* The end of a pass: cpu_relax, then another pass while busy, else return. *)
wait_for_task_group_pass_end(c) ==
    /\ ~halted
    /\ c_pc[c] = "w_exam"
    /\ c_task[c] = HEAD
    /\ IF c_busy[c]
       THEN /\ PassBegin(c, c_cpu[c])
            /\ hist' = [hist EXCEPT !.nondone[c] = FALSE, !.sawdone[c] = FALSE]
            /\ UNCHANGED <<c_pc, c_cpu, c_group>>
       ELSE /\ c_pc' = [c_pc EXCEPT ![c] = "idle"]
            /\ c_cpu' = [c_cpu EXCEPT ![c] = bsp_cpu_id]
            /\ c_group' = [c_group EXCEPT ![c] = TASK_GROUP_ALL]
            /\ hist' = [hist EXCEPT !.nondone[c] = FALSE, !.sawdone[c] = FALSE]
            /\ UNCHANGED <<c_task, c_safe, c_busy>>
    /\ UNCHANGED <<taskVars, cpuVars, rlVars, halted, extVars>>

(* ---------------------------- specification ---------------------------- *)
(* new_kernel_task: a kernel task, which has no stack of its own. *)
BuildStep(c) ==
    \/ \E t \in Tasks : create_task(c, t)
    \/ prepare_task(c, "n1", TASK_TYPE_KERNEL, NoPage)

SubmitStep(c) ==
    \/ \E t \in Tasks, cpu \in CPUS : schedule_task_lock(c, t, cpu)
    \/ schedule_task_link(c)
    \/ schedule_task_state(c)
    \/ schedule_task_unlock(c)

WaiterStep(c) ==
    \/ \E cpu \in CPUS, g \in Groups : wait_for_task_group_call(c, cpu, g)
    \/ wait_for_task_group_examine(c)
    \/ wait_for_task_state(c)
    \/ wait_for_task_group_pass_end(c)

RunLoopStep(cpu) ==
    \/ run_tasks_enter(cpu)
    \/ run_tasks_scan(cpu)
    \/ run_tasks_done(cpu)
    \/ destroy_task_lock(cpu)
    \/ destroy_task_unlink(cpu)
    \/ run_task(cpu)
    \/ run_task_done(cpu)
    \/ run_tasks_bug(cpu)
    \/ run_tasks_leave(cpu)
    \/ run_tasks_exit(cpu)

(* new_task with any name, type and outcome of the stack allocation. *)
BuildStepAny(c) ==
    \/ \E t \in Tasks : create_task(c, t)
    \/ \E ty \in TaskTypes, pg \in Pages \cup {NoPage} : prepare_task(c, "n1", ty, pg)

(* The scheduler core: a caller builds tasks with any repeat policy and    *)
(* submits them to either processor.  The primary processor runs its run   *)
(* loop; the secondary one is in run_tasks too, waiting to be unblocked.   *)
Next ==
    \/ \E c \in Submitters : BuildStep(c)
    \/ \E c \in Submitters, t \in Tasks, r \in Repeats : set_task_repeat(c, t, r)
    \/ \E c \in Submitters : SubmitStep(c)
    \/ \E cpu \in CPUS : RunLoopStep(cpu)

Spec == Init /\ [][Next]_vars

(* The run loop with run_task taken statement by statement. *)
RunLoopStepFine(cpu) ==
    \/ run_tasks_enter(cpu)
    \/ run_tasks_scan(cpu)
    \/ run_tasks_done(cpu)
    \/ destroy_task_lock(cpu)
    \/ destroy_task_unlink(cpu)
    \/ run_task_inc(cpu)
    \/ run_task_running(cpu)
    \/ run_task_result(cpu)
    \/ run_task_finish(cpu)
    \/ run_tasks_bug(cpu)
    \/ run_tasks_leave(cpu)
    \/ run_tasks_exit(cpu)

(* The core, with every store of run_task a step of its own. *)
NextRun ==
    \/ \E c \in Submitters : BuildStep(c)
    \/ \E c \in Submitters, t \in Tasks, r \in RunRepeats : set_task_repeat(c, t, r)
    \/ \E c \in Submitters : SubmitStep(c)
    \/ \E cpu \in CPUS : RunLoopStepFine(cpu)

SpecRun == Init /\ [][NextRun]_vars

(* The core with a second caller that waits for task groups. *)
NextWait ==
    \/ \E c \in Submitters : BuildStep(c)
    \/ \E c \in Submitters, t \in Tasks, r \in WaitRepeats : set_task_repeat(c, t, r)
    \/ \E c \in Submitters, t \in Tasks, g \in Groups : set_task_group(c, t, g)
    \/ \E c \in Submitters : SubmitStep(c)
    \/ \E c \in Waiters : WaiterStep(c)
    \/ \E t \in Tasks : kzalloc_reuse(t)
    \/ \E cpu \in CPUS : RunLoopStep(cpu)

SpecWait == Init /\ [][NextWait]_vars

(* The life of kernel and user tasks with policy ONCE: construction with   *)
(* or without a stack, submission with or without a processor, execution   *)
(* and destruction by the primary processor's run loop, destruction of a   *)
(* task that was not submitted.                                            *)
NextLife ==
    \/ \E c \in Submitters : BuildStepAny(c)
    \/ \E c \in Submitters, t \in Tasks : schedule_task_nocpu(c, t)
    \/ \E c \in Submitters, fault \in BOOLEAN : destroy_task_unsubmitted(c, fault)
    \/ \E c \in Submitters : SubmitStep(c)
    \/ \E cpu \in CPUS : RunLoopStep(cpu)

SpecLife == Init /\ [][NextLife]_vars

(* new_kernel_task on a processor that is not the only one creating tasks. *)
BuildStepSmp(c) ==
    \/ \E t \in Tasks : create_task_load(c, t)
    \/ create_task_store(c)
    \/ prepare_task(c, "n1", TASK_TYPE_KERNEL, NoPage)

(* Two callers on different processors build and submit ONCE tasks; the    *)
(* primary processor's run loop runs and destroys them.                    *)
NextIds ==
    \/ \E c \in Callers : BuildStepSmp(c)
    \/ \E c \in Callers : SubmitStep(c)
    \/ \E cpu \in CPUS : RunLoopStep(cpu)

SpecIds == Init /\ [][NextIds]_vars

(* schedule_task with the wait for the lock a step of its own. *)
SubmitStepFine(c) ==
    \/ \E t \in Tasks, cpu \in CPUS : schedule_task_assert(c, t, cpu)
    \/ schedule_task_spin(c)
    \/ schedule_task_link(c)
    \/ schedule_task_state(c)
    \/ schedule_task_unlock(c)

(* A call of schedule_task that has passed its tests goes on to its end. *)
SubmitGoesOn(c) ==
    \/ schedule_task_spin(c)
    \/ schedule_task_link(c)
    \/ schedule_task_state(c)
    \/ schedule_task_unlock(c)

(* Two callers build and submit ONCE tasks to either queue and wait for    *)
(* the queue's lock; the primary processor's run loop runs and destroys    *)
(* the tasks of its queue.                                                 *)
NextLock ==
    \/ \E c \in Callers : BuildStepSmp(c)
    \/ \E c \in Callers : SubmitStepFine(c)
    \/ \E cpu \in CPUS : RunLoopStep(cpu)

SpecLock == Init /\ [][NextLock]_vars

(* Fairness: a processor inside run_tasks or inside schedule_task keeps    *)
(* executing.                                                              *)
FairSpecLock ==
    /\ SpecLock
    /\ \A cpu \in CPUS : WF_vars(RunLoopStep(cpu))
    /\ \A c \in Callers : WF_vars(SubmitGoesOn(c))

(* The core with a caller that waits for task groups, for tasks with the   *)
(* policy ONCE whose memory is not handed out again.                       *)
NextGroup ==
    \/ \E c \in Submitters : BuildStep(c)
    \/ \E c \in Submitters, t \in Tasks, g \in Groups : set_task_group(c, t, g)
    \/ \E c \in Submitters : SubmitStep(c)
    \/ \E c \in Waiters : WaiterStep(c)
    \/ \E cpu \in CPUS : RunLoopStep(cpu)

SpecGroup == Init /\ [][NextGroup]_vars

(* The run loop, followed until a task has run MaxSmpExec times. *)
RunLoopStepSmp(cpu) ==
    /\ RunLoopStep(cpu)
    /\ \A t \in Tasks : exec_count'[t] <= MaxSmpExec

(* Both processors run their run loop: the startup sequence unblocks the   *)
(* secondary processor at some time.  A caller builds tasks with policy    *)
(* ONCE or LOOP and submits them to either processor.                      *)
NextSmp ==
    \/ \E c \in Submitters : BuildStep(c)
    \/ \E c \in Submitters, t \in Tasks, r \in SmpRepeats : set_task_repeat(c, t, r)
    \/ \E c \in Submitters : SubmitStep(c)
    \/ \E cpu \in CPUS : unblock_cpu(cpu)
    \/ \E cpu \in CPUS : RunLoopStepSmp(cpu)
    \/ \E cpu \in CPUS : run_tasks_block(cpu)

SpecSmp == Init /\ [][NextSmp]_vars

(* new_kernel_task with any name. *)
BuildStepNamed(c) ==
    \/ \E t \in Tasks : create_task(c, t)
    \/ \E nm \in Names : prepare_task(c, nm, TASK_TYPE_KERNEL, NoPage)

LookupStep(c) ==
    \/ \E cpu \in CPUS, nm \in Names : get_task_by_name_call(c, cpu, nm)
    \/ get_task_by_name_step(c)
    \/ get_task_by_name_return(c)

(* A caller builds named ONCE tasks and submits them to either processor,  *)
(* the primary processor's run loop runs and destroys them, and a caller   *)
(* on another processor looks tasks up by name.                            *)
NextLookup ==
    \/ \E c \in Submitters : BuildStepNamed(c)
    \/ \E c \in Submitters : SubmitStep(c)
    \/ \E c \in Waiters : LookupStep(c)
    \/ \E t \in Tasks : kzalloc_reuse(t)
    \/ \E cpu \in CPUS : RunLoopStep(cpu)

SpecLookup == Init /\ [][NextLookup]_vars

(* Fairness: a processor that is inside run_tasks, schedule_task or        *)
(* wait_for_task_group keeps executing; nothing obliges a caller to make   *)
(* a new call.                                                             *)
FairSpec ==
    /\ Spec
    /\ \A cpu \in CPUS : WF_vars(RunLoopStep(cpu))
    /\ \A c \in Submitters : WF_vars(SubmitStep(c))

FairSpecWait ==
    /\ SpecWait
    /\ \A cpu \in CPUS : WF_vars(RunLoopStep(cpu))
    /\ \A c \in Submitters : WF_vars(SubmitStep(c))
    /\ \A c \in Waiters :
          WF_vars(wait_for_task_group_examine(c) \/ wait_for_task_state(c)
                    \/ wait_for_task_group_pass_end(c))

(* ------------------------------ properties ----------------------------- *)
Live(t) == mem[t] = "live"
Freed(t) == mem[t] = "freed"
InSeq(q, t) == \E i \in 1 .. Len(q) : q[i] = t
(* schedule_task has linked t into cpu's queue at some time. *)
Submitted(cpu, t) == InSeq(hist.sub[cpu], t)
(* The run loop has run t's function to its end at least once. *)
Executed(t) ==
    /\ exec_count[t] >= 1
    /\ Freed(t) \/ state[t] \in {TASK_STATE_DONE, TASK_STATE_SCHEDULED}
(* The model stops counting the runs of a task here. *)
Capped == \E t \in Tasks : exec_count[t] = MaxExec

ForwardEdges ==
    { <<TASK_STATE_NEW, TASK_STATE_READY>>,
      <<TASK_STATE_READY, TASK_STATE_SCHEDULED>>,
      <<TASK_STATE_SCHEDULED, TASK_STATE_RUNNING>>,
      <<TASK_STATE_RUNNING, TASK_STATE_DONE>> }

(* C1: every change of a task's state is NEW->READY, READY->SCHEDULED,     *)
(* SCHEDULED->RUNNING, RUNNING->DONE or DONE->SCHEDULED, and the last one  *)
(* is taken only by a task whose repeat policy is not ONCE.                *)
C1_StateTransitions ==
    [][\A t \in Tasks :
         (Live(t) /\ mem'[t] = "live" /\ state'[t] # state[t]) =>
            \/ <<state[t], state'[t]>> \in ForwardEdges
            \/ /\ state[t] = TASK_STATE_DONE
               /\ state'[t] = TASK_STATE_SCHEDULED
               /\ repeat[t] # TASK_REPEAT_ONCE]_vars

(* A LOOP task and a counted task have both been run and rescheduled. *)
C1_Witness ==
    \E t, u \in Tasks :
        /\ hist.policy[t] = TASK_REPEAT_LOOP /\ hist.policy[u] = 1
        /\ exec_count[t] >= 1 /\ state[t] = TASK_STATE_SCHEDULED
        /\ exec_count[u] >= 1 /\ state[u] = TASK_STATE_SCHEDULED /\ Live(u)

(* C2: every task schedule_task has put into the primary processor's queue *)
(* before that processor's run_tasks returned is eventually executed by    *)
(* the run loop (unless the system was stopped by a panic).                *)
C2_EventuallyExecuted ==
    \A t \in Tasks :
        (Submitted(bsp_cpu_id, t) /\ t \notin hist.late)
            ~> (Executed(t) \/ Capped \/ halted)

(* C3: a task submitted with policy ONCE never runs twice, and when it is  *)
(* destroyed it is in no queue and its execution counter is 1.             *)
C3_OnceRetired ==
    \A t \in Tasks :
        hist.policy[t] = TASK_REPEAT_ONCE =>
            /\ exec_count[t] <= 1
            /\ Freed(t) => (exec_count[t] = 1 /\ \A cpu \in CPUS : ~Linked(cpu, t))

C3_Witness ==
    \E t \in Tasks : Freed(t) /\ hist.policy[t] = TASK_REPEAT_ONCE /\ exec_count[t] = 1

(* C4: a task submitted with a finite count N > 0 never runs more than     *)
(* N+1 times and has run exactly N+1 times when it is destroyed; while it  *)
(* is in the queue its stored count is N less the number of retirements.   *)
C4_FiniteCount ==
    \A t \in Tasks :
        LET N == hist.policy[t]
            retired == exec_count[t]
                         - (IF state[t] \in {TASK_STATE_RUNNING, TASK_STATE_DONE}
                            THEN 1 ELSE 0)
        IN N \in 1 .. MaxRepeat =>
             /\ exec_count[t] <= N + 1
             /\ Freed(t) => exec_count[t] = N + 1
             /\ Live(t) => repeat[t] = N - retired

(* A task with N = 1 and a task with the largest N have been destroyed. *)
C4_Witness ==
    \E t, u \in Tasks :
        /\ Freed(t) /\ hist.policy[t] = 1 /\ exec_count[t] = 2
        /\ Freed(u) /\ hist.policy[u] = MaxRepeat /\ exec_count[u] = MaxRepeat + 1

(* C5: once the whole batch of ONCE tasks has been submitted to the        *)
(* primary processor while its run loop was draining the queue (it has run *)
(* a task of the batch, and each task was linked before run_tasks          *)
(* returned), and the run loop has returned, every task has run exactly    *)
(* once and the queue is empty.                                            *)
C5_BatchRunsOnce ==
    ( /\ Len(hist.sub[bsp_cpu_id]) = MaxTasks
      /\ hist.late = {}
      /\ hist.run[bsp_cpu_id] # <<>>
      /\ \A t \in Tasks : hist.policy[t] = TASK_REPEAT_ONCE
      /\ \A c \in Submitters : c_pc[c] = "idle"
      /\ rl_pc[bsp_cpu_id] = "returned" )
    => ( /\ queue[bsp_cpu_id] = <<>>
         /\ \A t \in Tasks : exec_count[t] = 1 )

(* C6: a schedule_task call on a task that is not READY stops the system   *)
(* and changes no queue, lock, owner or state; and a task is linked into a *)
(* queue only while READY and in no queue.                                 *)
C6_RejectNotReady ==
    [][ /\ \A t \in Tasks :
             (t \in hist'.rejected /\ t \notin hist.rejected) =>
                /\ state[t] # TASK_STATE_READY
                /\ halted'
                /\ queue' = queue /\ lock' = lock /\ state' = state /\ tcpu' = tcpu
        /\ \A c \in Callers, t \in Tasks, cpu \in CPUS :
             ( /\ c_pc[c] \in {"idle", "built"}
               /\ c_pc'[c] = "s_link" /\ c_task'[c] = t )
             => state[t] = TASK_STATE_READY
        /\ \A cpu \in CPUS :
             queue'[cpu] # queue[cpu] /\ Len(queue'[cpu]) > Len(queue[cpu]) =>
                LET t == queue'[cpu][Len(queue'[cpu])]
                IN /\ state[t] = TASK_STATE_READY
                   /\ \A other \in CPUS : ~Linked(other, t) ]_vars

(* A second schedule_task on a task that has run to DONE and is still in  *)
(* its queue has been rejected.                                            *)
C6_Witness ==
    \E t \in hist.rejected :
        /\ halted
        /\ state[t] = TASK_STATE_DONE
        /\ \E cpu \in CPUS : Linked(cpu, t)

(* C10: schedule_task appends the task at the tail of cpu's queue and sets *)
(* its owner, then its state to SCHEDULED; a queue holds its tasks in the  *)
(* order of submission, and the first runs of its tasks follow that order. *)
C10_Fifo ==
    /\ [][ \A c \in Callers :
             /\ (c_pc[c] = "s_link" /\ c_pc'[c] = "s_state") =>
                   /\ queue'[c_cpu[c]] = Append(queue[c_cpu[c]], c_task[c])
                   /\ tcpu'[c_task[c]] = c_cpu[c]
             /\ (c_pc[c] = "s_state" /\ c_pc'[c] = "s_unlock") =>
                   /\ state'[c_task[c]] = TASK_STATE_SCHEDULED
                   /\ tcpu[c_task[c]] = c_cpu[c]
                   /\ Linked(c_cpu[c], c_task[c]) ]_vars
    /\ [](\A cpu \in CPUS :
            /\ \A i, j \in 1 .. Len(queue[cpu]) :
                 i < j => \E k, l \in 1 .. Len(hist.sub[cpu]) :
                            /\ k < l
                            /\ hist.sub[cpu][k] = queue[cpu][i]
                            /\ hist.sub[cpu][l] = queue[cpu][j]
            /\ Len(hist.run[cpu]) <= Len(hist.sub[cpu])
            /\ hist.run[cpu] = SubSeq(hist.sub[cpu], 1, Len(hist.run[cpu])))

(* Two tasks submitted to one queue have both had their first run. *)
C10_Witness ==
    \E cpu \in CPUS : Len(hist.run[cpu]) >= 2 /\ Len(queue[cpu]) >= 2

(* C7: wait_for_task_group returns only at the end of a pass (task is the  *)
(* list head) in which no matching task was read in a state other than     *)
(* DONE.                                                                   *)
C7_ReturnAfterCleanPass ==
    [][\A c \in Waiters :
         (c_pc[c] \in {"w_exam", "w_spin"} /\ c_pc'[c] = "idle") =>
            (c_task[c] = HEAD /\ ~hist.nondone[c])]_vars

(* A waiter is about to return from a pass in which it read a matching    *)
(* task as DONE, after an earlier pass in which it had to wait.            *)
C7_Witness ==
    \E c \in Waiters :
        /\ c_pc[c] = "w_exam" /\ c_task[c] = HEAD /\ ~c_busy[c]
        /\ hist.sawdone[c]
        /\ c_group[c] = TASK_GROUP_ACPI

(* A matching task is still in the queue of a processor whose run loop has *)
(* left its scan loop.                                                     *)
Lost == \E cpu \in CPUS : rl_pc[cpu] \in {"exit", "blocked", "returned"} /\ queue[cpu] # <<>>

(* C8: a wait_for_task_group on the primary processor's queue, whose run   *)
(* loop runs and whose tasks are all ONCE or counted, eventually returns.  *)
C8_WaitReturns ==
    \A c \in Waiters :
        (c_pc[c] \in {"w_exam", "w_spin"} /\ c_cpu[c] = bsp_cpu_id)
            ~> (c_pc[c] = "idle" \/ halted \/ Lost)

(* C9: no task is read after destroy_task has freed it. *)
C9_NoUseAfterFree == ~hist.uaf

(* C11: a schedule_task call without a target processor returns the       *)
(* failure value -EEXIST and changes no task state, no owner, no queue and *)
(* no lock, and does not stop the system; a READY task stays READY.        *)
C11_NoCpuRejected ==
    [][\A t \in Tasks :
         (t \in hist'.nocpu /\ t \notin hist.nocpu) =>
            /\ \E c \in Callers : c_ret'[c] = -EEXIST /\ c_ret[c] # -EEXIST
            /\ -EEXIST # ESUCCESS
            /\ state' = state /\ tcpu' = tcpu /\ queue' = queue /\ lock' = lock
            /\ mem' = mem /\ halted' = halted]_vars

(* A READY task was passed without a processor: it is still READY, has no  *)
(* owner and is in no queue.                                               *)
C11_Witness ==
    \E t \in hist.nocpu, c \in Callers :
        /\ c_ret[c] = -EEXIST /\ c_task[c] = t
        /\ state[t] = TASK_STATE_READY /\ tcpu[t] = NoCpu
        /\ \A cpu \in CPUS : ~Linked(cpu, t)

(* C12: destroy_task on a task that new_task returned and that was never   *)
(* submitted completes (the system is not stopped), leaves every queue and *)
(* every lock as it was, frees the task object and releases the stack page *)
(* of a user task once.                                                    *)
C12_DestroyUnsubmitted ==
    [][\A t \in Tasks :
         (t \in hist'.early /\ t \notin hist.early) =>
            /\ ~halted'
            /\ queue' = queue /\ lock' = lock
            /\ mem'[t] = "freed"
            /\ stack[t] # NoPage => (page'[stack[t]] = "free" /\ hist'.puts[t] = 1)]_vars

(* C18: a task whose stack allocation failed in prepare_task is not        *)
(* returned by new_task, does not stay allocated and is not READY.         *)
C18_AllocFailureCleansUp ==
    \A t \in hist.allocfail :
        /\ \A c \in Callers : ~(c_pc[c] = "built" /\ c_ret[c] = t)
        /\ ~Live(t)
        /\ state[t] # TASK_STATE_READY

(* C19: a live user task that is READY or later has a stack; the stack of  *)
(* a task is released once, when the task is destroyed, and not before;    *)
(* every page in use is the stack of a live task.                          *)
C19_UserStack ==
    /\ \A t \in Tasks :
          /\ (Live(t) /\ ttype[t] = TASK_TYPE_USER /\ state[t] >= TASK_STATE_READY)
                => stack[t] # NoPage
          /\ Live(t) => hist.puts[t] = 0
          /\ (Freed(t) /\ ttype[t] = TASK_TYPE_USER) => hist.puts[t] = 1
    /\ \A p \in Pages :
          page[p] = "used" => \E t \in Tasks : Live(t) /\ stack[t] = p

(* C13: two tasks that are alive at the same time, and that create_task    *)
(* has given their ids, have different ids.                                *)
C13_UniqueIds ==
    \A t, u \in Tasks :
        ( /\ t # u /\ Live(t) /\ Live(u)
          /\ \A c \in Callers : c_pc[c] = "c_store" => c_task[c] \notin {t, u} )
        => id[t] # id[u]

(* The places of task t in the queues. *)
Places(t) == {pl \in CPUS \X (1 .. MaxTasks) :
                 pl[2] <= Len(queue[pl[1]]) /\ queue[pl[1]][pl[2]] = t}

RunLoopMoves(cpu, t, from) ==
    /\ rl_pc[cpu] = from /\ rl_task[cpu] = t
    /\ rl_pc'[cpu] # rl_pc[cpu] \/ rl_task'[cpu] # rl_task[cpu]
    /\ cVars' = cVars

(* C16: a live task becomes RUNNING, goes from RUNNING to DONE, from DONE   *)
(* to SCHEDULED, or is destroyed after its submission, only in a step of   *)
(* the run loop of its owning processor working on that task; no step of a *)
(* caller does any of these.                                               *)
C16_OnlyRunLoop ==
    [][\A t \in Tasks :
         Live(t) =>
            /\ (state'[t] = TASK_STATE_RUNNING /\ state[t] # TASK_STATE_RUNNING)
                  => (tcpu[t] # NoCpu /\ RunLoopMoves(tcpu[t], t, "scan"))
            /\ (state[t] = TASK_STATE_RUNNING /\ state'[t] # TASK_STATE_RUNNING)
                  => ( /\ state'[t] = TASK_STATE_DONE
                       /\ RunLoopMoves(tcpu[t], t, "r_func") )
            /\ (state[t] = TASK_STATE_DONE /\ state'[t] # TASK_STATE_DONE)
                  => ( /\ state'[t] = TASK_STATE_SCHEDULED
                       /\ RunLoopMoves(tcpu[t], t, "scan") )
            /\ (mem'[t] = "freed" /\ tcpu[t] # NoCpu)
                  => ( /\ state[t] = TASK_STATE_DONE
                       /\ RunLoopMoves(tcpu[t], t, "d_unlink") )]_vars

(* The secondary processor's run loop has destroyed a task and recycled    *)
(* another one.                                                            *)
C16_Witness ==
    \E cpu \in CPUS \ {bsp_cpu_id} : \E t, u \in Tasks :
        /\ tcpu[t] = cpu /\ Freed(t)
        /\ tcpu[u] = cpu /\ Live(u) /\ exec_count[u] >= 1
        /\ state[u] = TASK_STATE_SCHEDULED

(* The tasks of cpu that are RUNNING. *)
Running(cpu) ==
    {t \in Tasks : Live(t) /\ tcpu[t] = cpu /\ state[t] = TASK_STATE_RUNNING}

(* C17: at most one task of a processor is RUNNING; and while one is, no   *)
(* other task of that processor is run, recycled or destroyed.             *)
C17_RunToCompletion ==
    /\ [](\A cpu \in CPUS : Cardinality(Running(cpu)) <= 1)
    /\ [][\A cpu \in CPUS : \A t \in Running(cpu) : \A u \in Tasks \ {t} :
             (Live(u) /\ tcpu[u] = cpu) =>
                /\ exec_count'[u] = exec_count[u]
                /\ state'[u] # TASK_STATE_RUNNING
                /\ state[u] = TASK_STATE_DONE => state'[u] = TASK_STATE_DONE
                /\ repeat'[u] = repeat[u]
                /\ mem'[u] = "live"]_vars

(* A task is RUNNING while another live task of the same queue waits or    *)
(* is DONE.                                                                *)
C17_Witness ==
    \E t \in Tasks :
        /\ Live(t) /\ state[t] = TASK_STATE_RUNNING
        /\ \E u \in Tasks \ {t} :
              /\ Linked(tcpu[t], u) /\ Live(u)
              /\ state[u] \in {TASK_STATE_SCHEDULED, TASK_STATE_DONE}

(* C20: the run loop of a secondary processor leaves its entry only when   *)
(* the processor is unblocked, and until then no task of its queue has     *)
(* been run or destroyed; the primary processor's run loop can always      *)
(* enter.                                                                  *)
C20_WaitUnblocked ==
    /\ [][\A cpu \in CPUS \ {bsp_cpu_id} :
             (rl_pc[cpu] = "start" /\ rl_pc'[cpu] # "start") => ~blocked[cpu]]_vars
    /\ [](\A cpu \in CPUS \ {bsp_cpu_id} :
            rl_pc[cpu] = "start" =>
               \A t \in Tasks :
                  tcpu[t] = cpu =>
                     /\ exec_count[t] = 0 /\ Live(t)
                     /\ state[t] \in {TASK_STATE_READY, TASK_STATE_SCHEDULED})
    /\ []((rl_pc[bsp_cpu_id] = "start" /\ ~halted) => ENABLED run_tasks_enter(bsp_cpu_id))

(* The secondary processor was unblocked and has run a task that had been  *)
(* waiting in its queue; the primary one has run a task too.               *)
C20_Witness ==
    \E cpu \in CPUS \ {bsp_cpu_id} :
        /\ hist.run[cpu] # <<>>
        /\ hist.run[bsp_cpu_id] # <<>>
        /\ ~blocked[cpu]

(* The tasks with name nm that were in cpu's queue when the lookup of     *)
(* caller c began and are still in it, in queue order.                     *)
Candidates(c, cpu, nm) ==
    SelectSeq(queue[cpu], LAMBDA t : InSeq(hist.snap[c], t) /\ Live(t) /\ name[t] = nm)

(* C15: when get_task_by_name(cpu, name) returns a task, the task is live, *)
(* is linked into cpu's queue, has that name, and no task with that name   *)
(* that was in the queue during the whole call is before it; when it       *)
(* returns none, no task with that name was in the queue during the whole  *)
(* call.                                                                   *)
C15_LookupByName ==
    [][\A c \in Waiters :
         (c_pc[c] = "g_cmp" /\ c_pc'[c] = "g_ret") =>
            LET r == c_ret'[c]
                cand == Candidates(c, c_cpu[c], c_name[c])
            IN IF r = NoTask
               THEN cand = <<>>
               ELSE /\ Live(r)
                    /\ Linked(c_cpu[c], r)
                    /\ name[r] = c_name[c]
                    /\ cand # <<>> => ~(IndexOf(queue[c_cpu[c]], Head(cand))
                                          < IndexOf(queue[c_cpu[c]], r))]_vars

(* ------------------------------------------------------------------------ *)
(* C21: within one call of run_tasks the processor is marked unfinished     *)
(* before its first scan and stays so while it scans; the loop is left only *)
(* from the test of the queue, with the queue empty; the processor is       *)
(* marked finished only after that, and a processor that is not the bsp is  *)
(* marked blocked before it is marked finished; run_tasks never changes the *)
(* blocked flag of the bsp.                                                 *)
InLoop(cpu) == rl_pc[cpu] \in {"load", "scan", "d_lock", "d_unlink", "r_func"}

C21_FinishFlags ==
    [][\A cpu \in CPUS :
          /\ (rl_pc[cpu] = "start" /\ rl_pc'[cpu] # "start")
                => (rl_pc'[cpu] = "load" /\ ~finished'[cpu])
          /\ InLoop(cpu)' => ~finished'[cpu]
          /\ (rl_pc'[cpu] = "exit" /\ rl_pc[cpu] # "exit")
                => (rl_pc[cpu] = "load" /\ queue[cpu] = <<>>)
          /\ (finished'[cpu] /\ ~finished[cpu])
                => /\ rl_pc[cpu] \in {"exit", "blocked"}
                   /\ ~is_cpu_bsp(cpu) => blocked[cpu]
          /\ (blocked'[cpu] /\ ~blocked[cpu])
                => (~is_cpu_bsp(cpu) /\ rl_pc[cpu] = "exit" /\ ~finished'[cpu])
          /\ is_cpu_bsp(cpu) => blocked'[cpu] = blocked[cpu]
    ]_vars

(* Both run loops have run a task and returned: both processors are marked  *)
(* finished, the secondary one is blocked again and the bsp is not.         *)
C21_Witness ==
    /\ \A cpu \in CPUS : rl_pc[cpu] = "returned" /\ finished[cpu] /\ hist.run[cpu] # <<>>
    /\ blocked[1]
    /\ ~blocked[bsp_cpu_id]

(* ------------------------------------------------------------------------ *)
(* C22: whatever the interleaving of schedule_task on other processors with *)
(* a processor's run loop, the run loop never takes the default branch of   *)
(* its switch: no step of the system is the run loop reaching BUG() on a    *)
(* linked task that is neither SCHEDULED nor DONE.                          *)
C22_NoFatalBranch ==
    [][\A cpu \in CPUS : ~run_tasks_bug(cpu)]_vars

(* ------------------------------------------------------------------------ *)
(* C23: run_tasks leaves its loop only from the test of the queue, with the *)
(* queue empty, and every task linked to that queue until then (those in it *)
(* when run_tasks started among them) has been executed and destroyed; when *)
(* every task submitted has the policy ONCE or a count, and no caller broke *)
(* the contract of schedule_task, a run_tasks that started eventually       *)
(* returns.                                                                 *)
LoopSubmitted == \E t \in Tasks : repeat[t] = TASK_REPEAT_LOOP

C23_RunTasksReturns ==
    /\ [][\A cpu \in CPUS :
             (rl_pc'[cpu] = "exit" /\ rl_pc[cpu] # "exit")
                => /\ rl_pc[cpu] = "load" /\ queue[cpu] = <<>>
                   /\ \A t \in Tasks :
                         Submitted(cpu, t) => (Freed(t) /\ exec_count[t] >= 1)]_vars
    /\ (rl_pc[bsp_cpu_id] # "start")
          ~> (rl_pc[bsp_cpu_id] = "returned" \/ LoopSubmitted \/ hist.rejected # {})

(* ------------------------------------------------------------------------ *)
(* C24: a task submitted with the policy LOOP is never destroyed and its    *)
(* repeat value never changes; the run loop that finds it DONE stores       *)
(* SCHEDULED again; a run_tasks whose queue received a LOOP task before it  *)
(* returned never returns, and the processor is never marked finished.      *)
LoopTask(t) == hist.policy[t] = TASK_REPEAT_LOOP /\ \E cpu \in CPUS : Submitted(cpu, t)

C24_LoopForever ==
    /\ [][\A t \in Tasks :
             LoopTask(t) =>
                /\ mem'[t] = "live" /\ repeat'[t] = TASK_REPEAT_LOOP
                /\ (state[t] = TASK_STATE_DONE /\ state'[t] # TASK_STATE_DONE)
                      => state'[t] = TASK_STATE_SCHEDULED]_vars
    /\ [](\A cpu \in CPUS, t \in Tasks :
             (LoopTask(t) /\ Linked(cpu, t) /\ t \notin hist.late)
                => (rl_pc[cpu] # "returned" /\ ~finished[cpu]))

(* ------------------------------------------------------------------------ *)
(* C25, as the claim states it: the state is RUNNING before the execution   *)
(* counter is incremented, so the counter of a SCHEDULED task never counts  *)
(* an execution that has not stored its result yet; and the result of a     *)
(* DONE task is that of its latest execution.                               *)
C25_RunningThenCount ==
    /\ [][\A t \in Tasks :
             exec_count'[t] # exec_count[t] => state[t] = TASK_STATE_RUNNING]_vars
    /\ [](\A t \in Tasks :
             /\ (Live(t) /\ state[t] = TASK_STATE_SCHEDULED) => exec_count[t] = result[t]
             /\ (Live(t) /\ state[t] = TASK_STATE_DONE) => result[t] = exec_count[t])

(* C25, amended: the run loop waits for SCHEDULED, increments the counter,  *)
(* stores RUNNING, calls the function, stores its result, stores DONE.  The *)
(* counter changes only by 1 and only while the state is SCHEDULED; a task  *)
(* becomes RUNNING only with the execution already counted; the result      *)
(* changes only while the task is RUNNING; a task becomes DONE only with    *)
(* the result of the execution counted last, and keeps it while DONE.       *)
C25_CountThenRunning ==
    /\ [][\A t \in Tasks :
             /\ exec_count'[t] # exec_count[t]
                   => /\ exec_count'[t] = exec_count[t] + 1
                      /\ state[t] = TASK_STATE_SCHEDULED /\ state'[t] = TASK_STATE_SCHEDULED
                      /\ result[t] = exec_count[t]
             /\ (state'[t] = TASK_STATE_RUNNING /\ state[t] # TASK_STATE_RUNNING)
                   => (state[t] = TASK_STATE_SCHEDULED /\ exec_count[t] = result[t] + 1)
             /\ (result'[t] # result[t] /\ Live(t))
                   => (state[t] = TASK_STATE_RUNNING /\ state'[t] = TASK_STATE_RUNNING
                       /\ result'[t] = exec_count[t])
             /\ (state'[t] = TASK_STATE_DONE /\ state[t] # TASK_STATE_DONE)
                   => (state[t] = TASK_STATE_RUNNING /\ result[t] = exec_count[t])]_vars
    /\ [](\A t \in Tasks :
             (Live(t) /\ state[t] = TASK_STATE_DONE) => result[t] = exec_count[t])

(* A task with the count 1 is DONE for the second time, with the result of  *)
(* its second execution.                                                    *)
C25_Witness ==
    \E t \in Tasks :
        /\ Live(t) /\ hist.policy[t] = 1
        /\ state[t] = TASK_STATE_DONE /\ exec_count[t] = 2 /\ result[t] = 2

(* ------------------------------------------------------------------------ *)
(* The run loop has counted an execution of t and not yet stored RUNNING.   *)
Picked(t) == \E cpu \in CPUS : rl_pc[cpu] = "r_state" /\ rl_task[cpu] = t

(* C26, as the claim states it: the execution counter of a task is the      *)
(* number of calls of its function so far; it is 0 while the task is NEW,   *)
(* READY or SCHEDULED and not yet run; a step changes it by at most +1.     *)
C26_CountIsCalls ==
    /\ [](\A t \in Tasks :
             Live(t) =>
                /\ exec_count[t] = hist.calls[t]
                /\ state[t] \in {TASK_STATE_NEW, TASK_STATE_READY} => exec_count[t] = 0
                /\ (state[t] = TASK_STATE_SCHEDULED /\ hist.calls[t] = 0)
                      => exec_count[t] = 0)
    /\ [][\A t \in Tasks :
             (Live(t) /\ Live(t)') => exec_count'[t] \in {exec_count[t], exec_count[t] + 1}]_vars

(* C26, amended: the counter is incremented when run_task picks the task,   *)
(* before the state becomes RUNNING and the function is called.  It is the  *)
(* number of calls of the function, plus one between that increment and the *)
(* call; it is 0 while the task is NEW or READY, and while it is SCHEDULED  *)
(* for the first time until run_task picks it; a step changes it by at most *)
(* +1, and the step from DONE back to SCHEDULED leaves it unchanged.        *)
C26_CountIsPicks ==
    /\ [](\A t \in Tasks :
             Live(t) =>
                /\ exec_count[t] = hist.calls[t] + (IF Picked(t) THEN 1 ELSE 0)
                /\ state[t] \in {TASK_STATE_NEW, TASK_STATE_READY} => exec_count[t] = 0
                /\ (state[t] = TASK_STATE_SCHEDULED /\ hist.calls[t] = 0 /\ ~Picked(t))
                      => exec_count[t] = 0)
    /\ [][\A t \in Tasks :
             (Live(t) /\ Live(t)') =>
                /\ exec_count'[t] \in {exec_count[t], exec_count[t] + 1}
                /\ (state[t] = TASK_STATE_DONE /\ state'[t] = TASK_STATE_SCHEDULED)
                      => exec_count'[t] = exec_count[t]]_vars

(* A task with the policy LOOP has been recycled twice and is SCHEDULED,    *)
(* not picked yet, with the counter 2.                                      *)
C26_Witness ==
    \E t \in Tasks :
        /\ Live(t) /\ hist.policy[t] = TASK_REPEAT_LOOP
        /\ state[t] = TASK_STATE_SCHEDULED /\ ~Picked(t)
        /\ exec_count[t] = 2 /\ hist.calls[t] = 2

(* ------------------------------------------------------------------------ *)
(* The frame of a waiter's call has changed: the waiter has taken a step.   *)
WaiterMoved(c) == <<c_pc[c], c_task[c], c_safe[c], c_busy[c]>>' # <<c_pc[c], c_task[c], c_safe[c], c_busy[c]>>

(* C27: wait_for_task_group with a group other than TASK_GROUP_ALL sets     *)
(* busy and busy-waits only on a task of that group that it read not DONE;  *)
(* a task of another group, whatever its state, is stepped over without     *)
(* busy being set; a pass that ends with busy clear (the queue was empty,   *)
(* or held no task of the group that was not DONE) ends the call.           *)
C27_GroupFilter ==
    [][\A c \in Waiters :
          LET t == c_task[c]
          IN /\ ((c_busy'[c] /\ ~c_busy[c]) \/ (c_pc'[c] = "w_spin" /\ c_pc[c] # "w_spin"))
                   => /\ t # HEAD
                      /\ ~Skipped(c_group[c], gid[t])
                      /\ state[t] # TASK_STATE_DONE
             /\ (c_pc[c] = "w_exam" /\ t # HEAD /\ WaiterMoved(c)
                   /\ c_group[c] # TASK_GROUP_ALL /\ gid[t] # c_group[c])
                   => /\ c_pc'[c] = "w_exam" /\ c_busy'[c] = c_busy[c]
                      /\ c_task'[c] = c_safe[c]
             /\ (c_pc[c] = "w_exam" /\ t = HEAD /\ ~c_busy[c] /\ WaiterMoved(c))
                   => c_pc'[c] = "idle"
    ]_vars

(* A wait for the group TASK_GROUP_ACPI on the bsp's queue is at the end of *)
(* a pass with busy clear, so it returns next, and the queue holds a live   *)
(* task of another group that is SCHEDULED or RUNNING.                      *)
C27_Witness ==
    \E c \in Waiters, t \in Tasks :
        /\ c_pc[c] = "w_exam" /\ c_task[c] = HEAD /\ ~c_busy[c]
        /\ c_group[c] = TASK_GROUP_ACPI /\ c_cpu[c] = bsp_cpu_id
        /\ Linked(bsp_cpu_id, t) /\ Live(t)
        /\ gid[t] # TASK_GROUP_ACPI /\ state[t] \in {TASK_STATE_SCHEDULED, TASK_STATE_RUNNING}
        /\ ~hist.uaf

(* ------------------------------------------------------------------------ *)
(* The threads between spin_lock and spin_unlock of cpu's lock: callers in  *)
(* schedule_task(task, cpu), run loops in destroy_task of one of cpu's      *)
(* tasks.                                                                   *)
InCritical(cpu) ==
    { CallerId(c) : c \in {d \in Callers : c_pc[d] \in {"s_link", "s_state", "s_unlock"}
                                             /\ c_cpu[d] = cpu} }
    \cup { RunLoopId(r) : r \in {q \in CPUS : rl_pc[q] = "d_unlink"
                                              /\ tcpu[rl_task[q]] = cpu} }

(* C28: at most one schedule_task or destroy_task is between spin_lock and  *)
(* spin_unlock of a processor's lock, and it is the holder of the lock; a   *)
(* queue changes only in a step of the holder of its lock; a step that      *)
(* changes a processor's queue or lock changes no other processor's queue   *)
(* or lock.                                                                 *)
C28_QueueLock ==
    /\ [](\A cpu \in CPUS :
             /\ Cardinality(InCritical(cpu)) <= 1
             /\ InCritical(cpu) = IF lock[cpu] = NoOwner THEN {} ELSE {lock[cpu]})
    /\ [][\A cpu \in CPUS :
             /\ queue'[cpu] # queue[cpu] => lock[cpu] # NoOwner
             /\ (queue'[cpu] # queue[cpu] \/ lock'[cpu] # lock[cpu])
                   => \A other \in CPUS \ {cpu} :
                         queue'[other] = queue[other] /\ lock'[other] = lock[other]]_vars

(* A caller is inside schedule_task on the bsp's queue, holding its lock,   *)
(* while the bsp's run loop is at the spin_lock of destroy_task for a task  *)
(* of that queue.                                                           *)
C28_Witness ==
    \E c \in Callers :
        /\ c_pc[c] = "s_state" /\ c_cpu[c] = bsp_cpu_id /\ lock[bsp_cpu_id] = CallerId(c)
        /\ rl_pc[bsp_cpu_id] = "d_lock" /\ tcpu[rl_task[bsp_cpu_id]] = bsp_cpu_id

(* ------------------------------------------------------------------------ *)
(* A caller has broken the contract of schedule_task (the task was not     *)
(* READY) and the assertion has stopped the system.                         *)
Rejected == hist.rejected # {}

(* C29: the holder of a queue lock is inside schedule_task or destroy_task, *)
(* never in a busy-wait on a task's state or in a task's function; and      *)
(* every schedule_task and destroy_task call that has reached spin_lock     *)
(* eventually holds the lock and eventually has released it (unless a       *)
(* caller broke the contract of schedule_task).                             *)
C29_LockProgress ==
    /\ [](\A cpu \in CPUS :
             /\ \A c \in Callers :
                   lock[cpu] = CallerId(c)
                      => c_pc[c] \in {"s_link", "s_state", "s_unlock"}
             /\ \A r \in CPUS :
                   lock[cpu] = RunLoopId(r) => rl_pc[r] = "d_unlink")
    /\ \A c \in Callers :
          /\ (c_pc[c] = "s_lock") ~> (lock[c_cpu[c]] = CallerId(c) \/ Rejected)
          /\ (c_pc[c] \in {"s_lock", "s_link", "s_state", "s_unlock"})
                ~> (c_pc[c] = "idle" \/ Rejected)
    /\ \A r \in CPUS :
          /\ (rl_pc[r] = "d_lock") ~> (rl_pc[r] = "d_unlink" \/ Rejected)
          /\ (rl_pc[r] \in {"d_lock", "d_unlink"})
                ~> (rl_pc[r] \in {"scan", "load"} \/ Rejected)

(* ------------------------------------------------------------------------ *)
(* C30: wait_for_task_group only reads.  A step of a call of it changes no  *)
(* task's state, repeat, exec_count, group, owner, result or memory, no     *)
(* queue and no lock; and the caller never holds a queue lock while it is   *)
(* inside wait_for_task_group.                                              *)
C30_WaitOnlyReads ==
    /\ [][\A c \in Waiters :
             (WaiterMoved(c) \/ c_cpu'[c] # c_cpu[c] \/ c_group'[c] # c_group[c])
                => UNCHANGED <<mem, state, repeat, gid, tcpu, exec_count, result,
                               queue, lock>>]_vars
    /\ [](\A c \in Waiters, cpu \in CPUS :
             c_pc[c] \in {"w_exam", "w_spin"} => lock[cpu] # CallerId(c))

(* A call of wait_for_task_group busy-waits on a live task that is RUNNING  *)
(* while a task is being linked under the lock of the same queue.           *)
C30_Witness ==
    \E c \in Waiters, d \in Submitters :
        /\ c_pc[c] = "w_spin" /\ Live(c_task[c]) /\ state[c_task[c]] = TASK_STATE_RUNNING
        /\ c_pc[d] = "s_state" /\ c_cpu[d] = c_cpu[c] /\ lock[c_cpu[c]] = CallerId(d)

(* --------------------------- new_task, in full ------------------------- *)
(* The arguments a caller may give new_task. *)
Args == {NoArg, StaticArg}

(* The calls of new_task looked at: name, function, argument and type.     *)
NewTaskCalls ==
    { <<"n1", "f1", StaticArg, TASK_TYPE_KERNEL>>,
      <<"n2", "_osd_exec_cb_wrapper", StaticArg, TASK_TYPE_USER>>,
      <<"n2", "f1", NoArg, TASK_TYPE_KERNEL>> }

(* new_task with one of these calls and, for a user task, any outcome of   *)
(* the stack allocation.                                                   *)
BuildStepArgs(c) ==
    \/ \E t \in Tasks : create_task(c, t)
    \/ \E in \in NewTaskCalls, pg \in Pages \cup {NoPage} :
          prepare_task_arg(c, in[1], in[2], in[3], in[4], pg)

(* Tasks built with any arguments, submitted and run; prepare_task is      *)
(* also entered without a task.                                            *)
NextNew ==
    \/ \E c \in Submitters : BuildStepArgs(c)
    \/ \E c \in Submitters : prepare_task_null(c)
    \/ \E c \in Submitters : SubmitStep(c)
    \/ \E cpu \in CPUS : RunLoopStep(cpu)

SpecNew == Init /\ [][NextNew]_vars

(* new_task has returned to caller c in this step. *)
NewTaskReturns(c) == c_pc[c] = "prepare" /\ c_pc'[c] = "built"

(* C31: the task new_task returns is READY, in the group "all tasks", with  *)
(* the execution counter 0 and the policy ONCE, carries the name, function, *)
(* argument and type new_task was given, and is in no run queue.            *)
(* prepare_task without a task returns -EINVAL and changes nothing else.    *)
C31_NewTaskReady ==
    [][/\ \A c \in Callers :
            NewTaskReturns(c)
            => LET t == c_task[c]
               IN /\ c_ret'[c] = t /\ mem'[t] = "live"
                  /\ state'[t] = TASK_STATE_READY
                  /\ gid'[t] = TASK_GROUP_ALL
                  /\ exec_count'[t] = 0
                  /\ repeat'[t] = TASK_REPEAT_ONCE
                  /\ tcpu'[t] = NoCpu
                  /\ \A cpu \in CPUS : ~InSeq(queue'[cpu], t)
                  /\ \E nm \in Names, fn \in Funcs, a \in Args, ty \in TaskTypes,
                        pg \in Pages \cup {NoPage} :
                        /\ prepare_task_arg(c, nm, fn, a, ty, pg)
                        /\ name'[t] = nm /\ func'[t] = fn /\ arg'[t] = a /\ ttype'[t] = ty
       /\ \A c \in Callers :
            prepare_task_null(c)
            => /\ c_ret'[c] = -EINVAL
               /\ UNCHANGED <<taskVars, cpuVars, rlVars, cVars, halted, hist, idVars,
                              resVars, result, argVars>>]_vars

(* new_task has returned a user task with the second name and function     *)
(* while an earlier task is in the primary processor's queue, and the last  *)
(* call before it was a prepare_task without a task.                        *)
C31_Witness ==
    \E c \in Callers, t \in Tasks, u \in Tasks :
        /\ c_pc[c] = "built" /\ c_task[c] = t /\ c_ret[c] = t
        /\ state[t] = TASK_STATE_READY
        /\ name[t] = "n2" /\ func[t] = "_osd_exec_cb_wrapper" /\ arg[t] = StaticArg
        /\ ttype[t] = TASK_TYPE_USER
        /\ u # t /\ InSeq(queue[bsp_cpu_id], u)

(* ------------------------- the ACPI OS layer --------------------------- *)
(* The processor a caller's code runs on: smp_processor_id().  A processor *)
(* has one thread of control and nothing preempts it, so the calls of a    *)
(* caller on a processor and that processor's run loop take turns: the     *)
(* caller's code is what runs before run_tasks is called there, or it is   *)
(* the body of a task function the run loop has called (code that runs     *)
(* after run_tasks has returned is not looked at); and the run loop moves  *)
(* only while no call of the caller is under way.  Caller A is code of the *)
(* primary processor; caller B is code of the secondary one, whose         *)
(* run_tasks has not been called.                                          *)
OnCpu(c) == IF c \in Submitters THEN bsp_cpu_id ELSE 1

CallerRuns(c) == rl_pc[OnCpu(c)] \in {"start", "r_func"}

RunLoopRuns(cpu) == \A c \in Callers : OnCpu(c) = cpu => c_pc[c] = "idle"

(* AcpiOsExecute(Type, Function, Context): name and cb are filled in,      *)
(* new_kernel_task(name, _osd_exec_cb_wrapper, &cb) builds the task with   *)
(* the addresses of both, set_task_group(task, TASK_GROUP_ACPI), and       *)
(* schedule_task(task, cpu) with the processor the call runs on; then      *)
(* AcpiOsExecute returns AE_OK and its frame ends.                         *)
AcpiOsExecute(c) ==
    /\ CallerRuns(c)
    /\ \/ \E t \in Tasks : create_task(c, t)
       \/ prepare_task_arg(c, "n1", "_osd_exec_cb_wrapper", c, TASK_TYPE_KERNEL, NoPage)
       \/ /\ c_pc[c] = "built" /\ arg[c_task[c]] = c
          /\ set_task_group(c, c_task[c], TASK_GROUP_ACPI)
       \/ /\ c_pc[c] = "built" /\ gid[c_task[c]] = TASK_GROUP_ACPI
          /\ schedule_task_lock(c, c_task[c], OnCpu(c))
       \/ schedule_task_link(c)
       \/ schedule_task_state(c)
       \/ schedule_task_unlock(c)

(* new_kernel_task and schedule_task for another kernel task of the same   *)
(* processor, in the group "all tasks", whose function and argument        *)
(* outlive it (create_task and the rest of schedule_task are the steps     *)
(* listed under AcpiOsExecute).                                            *)
PlainTask(c) ==
    /\ CallerRuns(c)
    /\ \/ prepare_task(c, "n2", TASK_TYPE_KERNEL, NoPage)
       \/ /\ c_pc[c] = "built" /\ arg[c_task[c]] = StaticArg
          /\ schedule_task_lock(c, c_task[c], OnCpu(c))

(* AcpiOsWaitEventsComplete: wait_for_task_group(cpu, TASK_GROUP_ACPI) on  *)
(* the queue of the processor the call runs on, for code of the primary    *)
(* processor; code of the other processor calls wait_for_task_group on the *)
(* primary processor's queue, with any group.                              *)
AcpiOsWaitEventsComplete(c) ==
    /\ CallerRuns(c)
    /\ \/ \E g \in Groups :
             /\ OnCpu(c) = bsp_cpu_id => g = TASK_GROUP_ACPI
             /\ wait_for_task_group_call(c, bsp_cpu_id, g)
       \/ wait_for_task_group_examine(c)
       \/ wait_for_task_state(c)
       \/ wait_for_task_group_pass_end(c)

(* The run loop of a processor whose queue only its own code fills: the    *)
(* loop never meets a task between its linking and its becoming SCHEDULED, *)
(* so the default branch of its switch is out of reach.                    *)
RunLoopStepOwn(cpu) ==
    /\ RunLoopRuns(cpu)
    /\ \/ run_tasks_enter(cpu)
       \/ run_tasks_scan(cpu)
       \/ run_tasks_done(cpu)
       \/ destroy_task_lock(cpu)
       \/ destroy_task_unlink(cpu)
       \/ run_task(cpu)
       \/ run_task_done(cpu)
       \/ run_tasks_leave(cpu)
       \/ run_tasks_exit(cpu)

(* A call of the caller that is under way goes on. *)
CallGoesOn(c) ==
    /\ c_pc[c] # "idle"
    /\ (AcpiOsExecute(c) \/ PlainTask(c) \/ AcpiOsWaitEventsComplete(c))

(* The primary processor: its boot code and its task functions queue ACPI  *)
(* callbacks and other tasks on its own queue and wait for the ACPI group; *)
(* its run loop runs them; the other processor waits for them too.         *)
NextAcpi ==
    \/ \E c \in Submitters : AcpiOsExecute(c)
    \/ \E c \in Submitters : PlainTask(c)
    \/ \E c \in Callers : AcpiOsWaitEventsComplete(c)
    \/ RunLoopStepOwn(bsp_cpu_id)

SpecAcpi == Init /\ [][NextAcpi]_vars

FairSpecAcpi ==
    /\ SpecAcpi
    /\ WF_vars(RunLoopStepOwn(bsp_cpu_id))
    /\ \A c \in Callers : WF_vars(CallGoesOn(c))

(* The function of task t is called in this step. *)
Called(t) == hist'.calls[t] = hist.calls[t] + 1

(* wait_for_task_group is under way for caller c. *)
Waiting(c) == c_pc[c] \in {"w_exam", "w_spin"}

(* C32: a wait_for_task_group that code running on a processor issues on    *)
(* that processor's own queue (AcpiOsWaitEventsComplete after AcpiOsExecute *)
(* has queued a task there, from outside the run loop or from inside a task *)
(* function) eventually returns.                                            *)
C32_OwnWaitReturns ==
    \A c \in Callers : (Waiting(c) /\ c_cpu[c] = OnCpu(c)) ~> (c_pc[c] = "idle")

(* C33: when the run loop calls the function of a task AcpiOsExecute has    *)
(* queued, the wrapper and the name the task points to are still alive, and *)
(* the call reaches the Function and Context AcpiOsExecute was given.       *)
C33_CallbackValid ==
    [][\A t \in Tasks :
          (Called(t) /\ arg[t] \in Callers) => (ArgValid(t) /\ t \notin hist'.wild)]_vars

====
